---- MODULE Spec2Model ----
(***************************************************************************)
(* IdecapLMS backend: the AI Studio prompt configuration store, the       *)
(* avatar-video generation pipeline, the synchronous content generators   *)
(* and the student access codes, modelled from the FastAPI handlers.      *)
(*                                                                         *)
(* Handlers whose awaits never suspend (the Firestore helpers of          *)
(* app/core/firebase_admin.py are async functions around blocking calls)  *)
(* run to completion on the event loop and are one action each.  Handlers *)
(* that await a real HTTP exchange (HeyGen) are split at that await.      *)
(***************************************************************************)
EXTENDS Integers, Sequences, FiniteSets, TLC

VARIABLES
    store,       \* ai_studio_config collection: document id -> document
    cache,       \* UnifiedPromptService._cache
    cacheTs,     \* UnifiedPromptService._cache_timestamp (NoTime = None)
    now,         \* datetime.utcnow(), in seconds
    resp,        \* outcome of the operation performed by the last step
    prev,        \* outcome of the operation performed by the step before
    video,       \* the generated_videos document that is followed
    heygen,      \* HeyGen: job id -> job
    polls,       \* _poll_heygen_status background tasks: job id -> task
    calls,       \* video handlers suspended at an await of HeyGen
    accessCodes, \* access_codes collection, in order of creation
    users,       \* users collection: user id -> document
    artifacts,   \* the followed document of each synchronous generator
    tasks,       \* synchronous generators suspended at a provider call
    lastRead,    \* what the fetches since the last write returned, per document
    accounts,    \* users collection as the creation endpoints see it, in order of creation
    fetchedAt,   \* when the service last fetched each document from the store
    updaters,    \* update_master_prompt requests in flight: admin -> request
    issued,      \* access codes for which a validation has returned a JWT
    revoked,     \* access codes that were revoked and not generated again
    course       \* the hierarchy of one course and its courseMeta.lessonsCount

cfgVars == <<store, cache, cacheTs, now>>
videoVars == <<video, heygen, polls, calls>>
accessVars == <<accessCodes, users>>
vars ==
    <<store, cache, cacheTs, now, resp, prev, video, heygen, polls, calls,
      accessCodes, users, artifacts, tasks, lastRead,
      accounts, fetchedAt, updaters, issued, revoked, course>>
genVars == <<artifacts, tasks>>
readVars == <<lastRead, fetchedAt>>
userVars == <<accounts>>
codeVars == <<issued, revoked>>
otherVars == <<updaters, codeVars, course>>

(***************************************************************************)
(* Bounds of the model                                                     *)
(***************************************************************************)
MaxVersion == 12        \* master prompt versions explored by SpecMaster
CfgMaxVersion == 2      \* master prompt versions explored by SpecCfg
MaxTime == 300          \* last instant of the clock
TickStep == 150         \* seconds between two observed instants
MaxJobs == 1            \* HeyGen jobs started in one behaviour
PollAttempts == 2       \* attempts of a poll loop explored by SpecVideo
MaxCodes == 2           \* access codes generated in one behaviour
MaxDays == 1            \* days that pass in one behaviour
MaxArtifacts == 2       \* generation requests accepted in one behaviour
MaxRoles == 3           \* roles in a caller's list explored by SpecGuard
MaxPieces == 2          \* pieces of a template explored by SpecSubst
MaxUsers == 2           \* user documents created in one behaviour
MaxLessons == 2         \* lessons of a hierarchy explored by SpecPath
MaxQuestions == 4       \* questions of a provider's answer explored by SpecQuiz
MaxPoints == 2          \* points of a question explored by SpecQuiz

(***************************************************************************)
(* Program constants                                                       *)
(***************************************************************************)
KeepVersions == 10              \* update_master_prompt: versions[-10:]
_cache_ttl_seconds == 300
NoTime == -1
MaxScriptLen == 5000            \* generate_video: len(request.script) > 5000
MinScriptLen == 10              \* generate_video: len(request.script) < 10
max_attempts == 60              \* _poll_heygen_status
MinCodeLen == 4                 \* validate_access_code: len(code) < 4
SecondsPerDay == 86400          \* timedelta(days=1)

AIModule ==
    {"audio", "presentation", "mindmap", "podcast", "video", "flashcard",
     "quiz", "lesson"}

DEFAULT_MASTER_PROMPT == "DEFAULT_MASTER_PROMPT"
DEFAULT_STRUCTURE_TEMPLATE == "DEFAULT_STRUCTURE_TEMPLATE"

\* the keys of the dictionary and the "content" of each entry
DEFAULT_MODULE_EXTENSIONS ==
    [audio |-> "EXT_AUDIO", presentation |-> "EXT_PRESENTATION",
     mindmap |-> "EXT_MINDMAP", podcast |-> "EXT_PODCAST",
     video |-> "EXT_VIDEO", flashcard |-> "EXT_FLASHCARD",
     quiz |-> "EXT_QUIZ"]

MasterId == <<"master_prompt">>
StructureId == <<"structure_template">>
ExtId(m) == <<"extension", m>>
DocIds ==
    {MasterId, StructureId} \cup {ExtId(m) : m \in DOMAIN DEFAULT_MODULE_EXTENSIONS}

(***************************************************************************)
(* Documents.  A stored document keeps the fields the handlers read:      *)
(* content, current_version and versions (a master prompt created by the  *)
(* prompt service has no "versions" field: has_versions = FALSE).         *)
(***************************************************************************)
NoDoc ==
    [exists |-> FALSE, content |-> "", current_version |-> 0,
     has_versions |-> FALSE, versions |-> <<>>]

PlainDoc(c) ==
    [exists |-> TRUE, content |-> c, current_version |-> 0,
     has_versions |-> FALSE, versions |-> <<>>]

PromptVersion(n, c) == [version |-> n, content |-> c]

\* default_data of get_or_create_master_prompt and master_data of reset_to_defaults
MasterDefault ==
    [exists |-> TRUE, content |-> DEFAULT_MASTER_PROMPT, current_version |-> 1,
     has_versions |-> TRUE,
     versions |-> <<PromptVersion(1, DEFAULT_MASTER_PROMPT)>>]

\* the default of UnifiedPromptService.get_master_prompt: no "versions" key
ServiceMasterDefault ==
    [exists |-> TRUE, content |-> DEFAULT_MASTER_PROMPT, current_version |-> 1,
     has_versions |-> FALSE, versions |-> <<>>]

NoResp == [op |-> "none"]

\* get_document
get_document(s, id) == s[id]

\* set_document: creates or overwrites
set_document(s, id, d) == [s EXCEPT ![id] = d]

\* prompt.get("versions", [])
VersionsOf(d) == IF d.has_versions THEN d.versions ELSE <<>>

\* versions[-10:]
LastN(s, n) ==
    IF Len(s) > n THEN SubSeq(s, Len(s) - n + 1, Len(s)) ELSE s

(***************************************************************************)
(* prompt_config.py helpers                                                *)
(***************************************************************************)
\* the store after get_or_create_master_prompt
StoreAfterGetOrCreateMaster(s) ==
    IF get_document(s, MasterId).exists THEN s
    ELSE set_document(s, MasterId, MasterDefault)

get_or_create_master_prompt(s) == get_document(StoreAfterGetOrCreateMaster(s), MasterId)

StoreAfterGetOrCreateStructure(s) ==
    IF get_document(s, StructureId).exists THEN s
    ELSE set_document(s, StructureId, PlainDoc(DEFAULT_STRUCTURE_TEMPLATE))

\* module not in DEFAULT_MODULE_EXTENSIONS
HasDefault(m) == m \in DOMAIN DEFAULT_MODULE_EXTENSIONS

\* get_or_create_module_extension: found, created, or 404
ExtExists(s, m) == HasDefault(m) /\ get_document(s, ExtId(m)).exists

StoreAfterGetOrCreateExt(s, m) ==
    IF ~HasDefault(m) \/ ExtExists(s, m) THEN s
    ELSE set_document(s, ExtId(m), PlainDoc(DEFAULT_MODULE_EXTENSIONS[m]))

(***************************************************************************)
(* Master prompt endpoints                                                 *)
(***************************************************************************)
FetchResp(opname, path, d) ==
    [op |-> opname, path |-> path, http |-> 200,
     content |-> d.content, version |-> d.current_version]

\* GET /master-prompt
get_master_prompt ==
    /\ store' = StoreAfterGetOrCreateMaster(store)
    /\ resp' = FetchResp("get_master_prompt", "endpoint", get_or_create_master_prompt(store))
    /\ UNCHANGED <<cache, cacheTs, now>>

\* a plausible slip: the version counter is written back unchanged
NewVersionSame(prompt) == prompt.current_version

\* new_version = prompt.get("current_version", 1) + 1
NewVersion(prompt) == prompt.current_version + 1

\* the versions list update_master_prompt writes
UpdatedVersions(prompt, c) ==
    LET appended == Append(VersionsOf(prompt),
                           PromptVersion(NewVersion(prompt), c))
    IN  IF Len(appended) > KeepVersions THEN LastN(appended, KeepVersions)
        ELSE appended

\* PUT /master-prompt with request.content = c
update_master_prompt(c, maxv) ==
    LET prompt == get_or_create_master_prompt(store)
        new_version == NewVersion(prompt)
        updated == [exists |-> TRUE, content |-> c,
                    current_version |-> new_version, has_versions |-> TRUE,
                    versions |-> UpdatedVersions(prompt, c)]
    IN  /\ prompt.current_version < maxv
        /\ store' = set_document(StoreAfterGetOrCreateMaster(store), MasterId, updated)
        /\ resp' = [op |-> "update_master_prompt", path |-> "endpoint", http |-> 200,
                    content |-> updated.content, version |-> updated.current_version,
                    request |-> c, before |-> prompt.current_version]
        /\ UNCHANGED <<cache, cacheTs, now>>

\* a plausible slip: the requested version used as a position in the list
TargetIndexByPosition(versions, version) ==
    IF version \in 1..Len(versions) THEN version ELSE 0

\* for v in versions: if v.get("version") == version: target_version = v; break
TargetIndex(versions, version) ==
    LET hits == {i \in 1..Len(versions) : versions[i].version = version}
    IN  IF hits = {} THEN 0
        ELSE CHOOSE i \in hits : \A j \in hits : i <= j

\* POST /master-prompt/rollback/{version}
rollback_master_prompt(version, maxv) ==
    LET prompt == get_or_create_master_prompt(store)
        versions == VersionsOf(prompt)
        idx == TargetIndex(versions, version)
        new_version == NewVersion(prompt)
    IN  /\ prompt.current_version < maxv
        /\ IF idx = 0
           THEN /\ store' = StoreAfterGetOrCreateMaster(store)
                /\ resp' = [op |-> "rollback_master_prompt", path |-> "endpoint",
                            http |-> 404, target |-> version]
           ELSE /\ store' = set_document(StoreAfterGetOrCreateMaster(store), MasterId,
                       [exists |-> TRUE, content |-> versions[idx].content,
                        current_version |-> new_version, has_versions |-> TRUE,
                        versions |-> Append(versions,
                            PromptVersion(new_version, versions[idx].content))])
                /\ resp' = [op |-> "rollback_master_prompt", path |-> "endpoint",
                            http |-> 200, target |-> version,
                            new_version |-> new_version]
        /\ UNCHANGED <<cache, cacheTs, now>>

\* a plausible slip: the loop over DEFAULT_MODULE_EXTENSIONS is missing
ResetStoreKeepingExtensions(s) ==
    [id \in DocIds |->
        IF id = MasterId THEN MasterDefault
        ELSE IF id = StructureId THEN PlainDoc(DEFAULT_STRUCTURE_TEMPLATE)
        ELSE s[id]]

\* the documents reset_to_defaults writes: master, structure, every extension
ResetStore(s) ==
    [id \in DocIds |->
        IF id = MasterId THEN MasterDefault
        ELSE IF id = StructureId THEN PlainDoc(DEFAULT_STRUCTURE_TEMPLATE)
        ELSE PlainDoc(DEFAULT_MODULE_EXTENSIONS[id[2]])]

\* POST /reset-defaults
reset_to_defaults ==
    /\ store' = ResetStore(store)
    /\ resp' = [op |-> "reset_to_defaults", path |-> "endpoint", http |-> 200]
    /\ UNCHANGED <<cache, cacheTs, now>>

(***************************************************************************)
(* Structure template and module extension endpoints                       *)
(***************************************************************************)
\* GET /structure-template
get_structure_template ==
    /\ store' = StoreAfterGetOrCreateStructure(store)
    /\ resp' = FetchResp("get_structure_template", "endpoint",
                         get_document(StoreAfterGetOrCreateStructure(store), StructureId))
    /\ UNCHANGED <<cache, cacheTs, now>>

\* Firestore update of the "content" field
WithContent(d, c) == [d EXCEPT !.content = c]

\* PUT /structure-template with request.content = c
update_structure_template(c) ==
    LET created == StoreAfterGetOrCreateStructure(store)
        updated == WithContent(get_document(created, StructureId), c)
    IN  /\ store' = set_document(created, StructureId, updated)
        /\ resp' = [op |-> "update_structure_template", path |-> "endpoint",
                    http |-> 200, content |-> updated.content, version |-> 0,
                    request |-> c]
        /\ UNCHANGED <<cache, cacheTs, now>>

\* GET /extensions/{module}
get_module_extension(m) ==
    /\ m \in AIModule
    /\ store' = StoreAfterGetOrCreateExt(store, m)
    /\ resp' = IF HasDefault(m)
               THEN [FetchResp("get_module_extension", "endpoint",
                               get_document(StoreAfterGetOrCreateExt(store, m), ExtId(m)))
                     EXCEPT !.op = "get_module_extension"] @@ [module |-> m]
               ELSE [op |-> "get_module_extension", path |-> "endpoint",
                     http |-> 404, module |-> m]
    /\ UNCHANGED <<cache, cacheTs, now>>

\* PUT /extensions/{module} with request.content = c
update_module_extension(m, c) ==
    /\ m \in AIModule
    /\ IF HasDefault(m)
       THEN LET created == StoreAfterGetOrCreateExt(store, m)
                updated == WithContent(get_document(created, ExtId(m)), c)
            IN  /\ store' = set_document(created, ExtId(m), updated)
                /\ resp' = [op |-> "update_module_extension", path |-> "endpoint",
                            http |-> 200, content |-> updated.content, version |-> 0,
                            request |-> c, module |-> m]
       ELSE /\ store' = store
            /\ resp' = [op |-> "update_module_extension", path |-> "endpoint",
                        http |-> 404, module |-> m]
    /\ UNCHANGED <<cache, cacheTs, now>>

(***************************************************************************)
(* UnifiedPromptService.  The service state is the store, the cache and   *)
(* the cache timestamp; a fetch maps one such state to the next, so that  *)
(* assemble_prompt can chain its three fetches.                           *)
(***************************************************************************)
NoEntry == [present |-> FALSE, content |-> "", current_version |-> 0]

\* the fetches of one document remembered: the last one served from the
\* store since the last write, and the last one the service answered
NoReads == [stored |-> NoEntry, service |-> NoEntry, any |-> NoEntry]

\* what a caller reads of a cached document
Entry(d) == [present |-> TRUE, content |-> d.content, current_version |-> d.current_version]

SvcState == [store |-> store, cache |-> cache, ts |-> cacheTs]

\* the validity test of _get_cached_or_fetch
CacheHit(st, id) ==
    /\ st.ts # NoTime
    /\ now - st.ts < _cache_ttl_seconds
    /\ st.cache[id].present

\* a plausible slip: a miss answers the default without reading the store
CachedOrDefault(st, id, default) ==
    IF CacheHit(st, id) THEN st.cache[id] ELSE Entry(default)

\* _get_cached_or_fetch(doc_id, default_data): the document returned
CachedOrFetched(st, id, default) ==
    IF CacheHit(st, id) THEN st.cache[id]
    ELSE IF get_document(st.store, id).exists THEN Entry(get_document(st.store, id))
    ELSE Entry(default)

\* _get_cached_or_fetch(doc_id, default_data): the service state it leaves
_get_cached_or_fetch(st, id, default) ==
    IF CacheHit(st, id) THEN st
    ELSE [store |-> IF get_document(st.store, id).exists THEN st.store
                    ELSE set_document(st.store, id, default),
          cache |-> [st.cache EXCEPT ![id] = CachedOrFetched(st, id, default)],
          ts |-> now]

Commit(st) ==
    /\ store' = st.store
    /\ cache' = st.cache
    /\ cacheTs' = st.ts

\* UnifiedPromptService.get_master_prompt
UnifiedPromptService_get_master_prompt ==
    /\ Commit(_get_cached_or_fetch(SvcState, MasterId, ServiceMasterDefault))
    /\ resp' = [FetchResp("get_master_prompt", "service",
                    CachedOrFetched(SvcState, MasterId, ServiceMasterDefault))
                EXCEPT !.op = "get_master_prompt"]
    /\ UNCHANGED now

\* UnifiedPromptService.get_structure_template
UnifiedPromptService_get_structure_template ==
    /\ Commit(_get_cached_or_fetch(SvcState, StructureId, PlainDoc(DEFAULT_STRUCTURE_TEMPLATE)))
    /\ resp' = [FetchResp("get_structure_template", "service",
                    CachedOrFetched(SvcState, StructureId, PlainDoc(DEFAULT_STRUCTURE_TEMPLATE)))
                EXCEPT !.op = "get_structure_template"]
    /\ UNCHANGED now

\* UnifiedPromptService.get_module_extension(module)
UnifiedPromptService_get_module_extension(m) ==
    /\ IF HasDefault(m)
       THEN /\ Commit(_get_cached_or_fetch(SvcState, ExtId(m),
                                           PlainDoc(DEFAULT_MODULE_EXTENSIONS[m])))
            /\ resp' = FetchResp("get_module_extension", "service",
                           CachedOrFetched(SvcState, ExtId(m),
                                           PlainDoc(DEFAULT_MODULE_EXTENSIONS[m])))
                       @@ [module |-> m]
       ELSE /\ UNCHANGED <<store, cache, cacheTs>>
            /\ resp' = [op |-> "get_module_extension", path |-> "service",
                        http |-> 0, error |-> "ValueError: Unknown module",
                        module |-> m]
    /\ UNCHANGED now

\* the service state after the fetches assemble_prompt performs before it
\* returns or raises: master, structure, then the module extension
AfterAssemble(st, m) ==
    LET s1 == _get_cached_or_fetch(st, MasterId, ServiceMasterDefault)
        s2 == _get_cached_or_fetch(s1, StructureId, PlainDoc(DEFAULT_STRUCTURE_TEMPLATE))
    IN  IF HasDefault(m)
        THEN _get_cached_or_fetch(s2, ExtId(m), PlainDoc(DEFAULT_MODULE_EXTENSIONS[m]))
        ELSE s2

\* a plausible slip: a failed assembly falls back to a static prompt
ProviderCalledEvenIfAssemblyFails(m, configured) == configured

\* the generate_content call is reached only when _ensure_initialized and
\* assemble_prompt both returned
ProviderCalled(m, configured) == configured /\ HasDefault(m)

\* GeminiService.generate_with_unified_prompt(module, context): configured is
\* the outcome of _ensure_initialized, outcome the provider's answer
generate_with_unified_prompt(m, configured, outcome) ==
    /\ outcome \in {"ok", "bad_json", "error"}
    /\ IF ~configured
       THEN /\ UNCHANGED <<store, cache, cacheTs>>
            /\ resp' = [op |-> "generate_with_unified_prompt", module |-> m,
                        provider_called |-> FALSE,
                        result |-> "ValueError: Gemini API key not configured"]
       ELSE /\ Commit(AfterAssemble(SvcState, m))
            /\ resp' = [op |-> "generate_with_unified_prompt", module |-> m,
                        provider_called |-> ProviderCalled(m, configured),
                        result |-> IF ~HasDefault(m) THEN "ValueError: Unknown module"
                                   ELSE IF outcome = "ok" THEN "ok"
                                   ELSE IF outcome = "bad_json"
                                        THEN "ValueError: Invalid JSON response from Gemini"
                                   ELSE "provider error"]
    /\ UNCHANGED now

\* the clock advances
Tick ==
    /\ now + TickStep <= MaxTime
    /\ now' = now + TickStep
    /\ resp' = [op |-> "tick"]
    /\ UNCHANGED <<store, cache, cacheTs>>

(***************************************************************************)
(* Avatar videos (videos.py, heygen_service.py).  One generated_videos    *)
(* document is followed; HeyGen is a set of jobs that progress on their    *)
(* own.  A handler that awaits HeyGen is split at the await: its first     *)
(* half leaves a record in calls, its second half resumes from it.        *)
(***************************************************************************)
JobIds == 1..MaxJobs
NoJob == 0
None == "None"

VideoStatus == {"pending", "queued", "generating", "processing", "completed", "failed"}

\* the statuses get_video_status maps HeyGen's answer to
HeyGenStatus == {"pending", "processing", "completed", "failed"}

\* data.error of a HeyGen status answer
ProviderErrors == {None, "render failed"}

NotConfiguredMessage ==
    "HeyGen API key not configured. Set HEYGEN_API_KEY environment variable."
HeyGenApiError == "HeyGen API error"
CancelMessage == "Generation cancelled by user"
TimeoutMessage == "Video generation timed out. Please try again."

NoVideo ==
    [exists |-> FALSE, status |-> "pending", heygenVideoId |-> NoJob,
     errorMessage |-> None, videoUrl |-> NoJob]

\* vid_data of generate_video
NewVideo ==
    [exists |-> TRUE, status |-> "pending", heygenVideoId |-> NoJob,
     errorMessage |-> None, videoUrl |-> NoJob]

NoJobRecord == [started |-> FALSE, status |-> "pending", error |-> None]
NoPoll == [active |-> FALSE, attempt |-> 0]
\* a handler that is not suspended; vid_data is the document a suspended
\* handler read before its await
NoCall == [waiting |-> FALSE, vid_data |-> NoVideo, fresh |-> FALSE]
IdleCalls == [generate |-> NoCall, regenerate |-> NoCall, status |-> NoCall]
Waiting == [NoCall EXCEPT !.waiting = TRUE]

\* the job HeyGen creates for the next accepted generation request
NextJob == CHOOSE j \in JobIds : ~heygen[j].started /\ \A k \in JobIds : ~heygen[k].started => j <= k

\* _video_to_response / the dictionary of get_generation_status
VideoResp(opname, code, d) ==
    [op |-> opname, http |-> code, status |-> d.status,
     error_message |-> d.errorMessage, video_url |-> d.videoUrl]

ErrorResp(opname, code) == [op |-> opname, http |-> code]

\* POST /generate up to the await of heygen.generate_video
generate_video_begin(scriptLen) ==
    /\ ~video.exists
    /\ ~calls.generate.waiting
    /\ IF scriptLen > MaxScriptLen \/ scriptLen < MinScriptLen
       THEN /\ resp' = ErrorResp("generate_video", 400) @@ [upstream |-> "not called"]
            /\ UNCHANGED <<video, calls>>
       ELSE /\ video' = NewVideo
            /\ calls' = [calls EXCEPT !.generate = Waiting]
            /\ resp' = [op |-> "generate_video_begin"]
    /\ UNCHANGED <<heygen, polls>>

\* the generation is accepted by HeyGen: the document records the job and
\* the poll task is scheduled
StartJob(d) == [d EXCEPT !.status = "generating", !.heygenVideoId = NextJob]

Failed(d, message) == [d EXCEPT !.status = "failed", !.errorMessage = message]

\* POST /generate from the return of heygen.generate_video
generate_video_end(outcome) ==
    /\ calls.generate.waiting
    /\ outcome \in {"ok", "ValueError", "Exception"}
    /\ calls' = [calls EXCEPT !.generate = NoCall]
    /\ IF outcome = "ok"
       THEN /\ \E j \in JobIds : ~heygen[j].started
            /\ video' = StartJob(video)
            /\ heygen' = [heygen EXCEPT ![NextJob].started = TRUE]
            /\ polls' = [polls EXCEPT ![NextJob] = [active |-> TRUE, attempt |-> 0]]
            /\ resp' = VideoResp("generate_video", 200, video') @@ [upstream |-> outcome]
       ELSE /\ video' = IF outcome = "ValueError"
                        THEN Failed(video, NotConfiguredMessage)
                        ELSE Failed(video, "Error al generar video: " \o HeyGenApiError)
            /\ resp' = ErrorResp("generate_video", IF outcome = "ValueError" THEN 503 ELSE 500)
                       @@ [upstream |-> outcome]
            /\ UNCHANGED <<heygen, polls>>


\* POST /{video_id}/cancel
cancel_generation ==
    /\ IF ~video.exists
       THEN /\ resp' = ErrorResp("cancel_generation", 404)
            /\ UNCHANGED video
       ELSE IF video.status \notin {"pending", "queued", "generating"}
       THEN /\ resp' = ErrorResp("cancel_generation", 400)
            /\ UNCHANGED video
       ELSE /\ video' = Failed(video, CancelMessage)
            /\ resp' = ErrorResp("cancel_generation", 200)
    /\ UNCHANGED <<heygen, polls, calls>>

\* the "Reset status" update of regenerate_video
ResetVideo(d) ==
    [d EXCEPT !.status = "pending", !.videoUrl = NoJob, !.errorMessage = None,
              !.heygenVideoId = NoJob]

\* POST /{video_id}/regenerate up to the await of heygen.generate_video
regenerate_video_begin ==
    /\ ~calls.regenerate.waiting
    /\ IF ~video.exists
       THEN /\ resp' = ErrorResp("regenerate_video", 404)
            /\ UNCHANGED <<video, calls>>
       ELSE /\ video' = ResetVideo(video)
            /\ calls' = [calls EXCEPT !.regenerate = Waiting]
            /\ resp' = [op |-> "regenerate_video_begin"]
    /\ UNCHANGED <<heygen, polls>>

\* POST /{video_id}/regenerate from the return of heygen.generate_video
regenerate_video_end(outcome) ==
    /\ calls.regenerate.waiting
    /\ outcome \in {"ok", "Exception"}
    /\ calls' = [calls EXCEPT !.regenerate = NoCall]
    /\ IF outcome = "ok"
       THEN /\ \E j \in JobIds : ~heygen[j].started
            /\ video' = StartJob(video)
            /\ heygen' = [heygen EXCEPT ![NextJob].started = TRUE]
            /\ polls' = [polls EXCEPT ![NextJob] = [active |-> TRUE, attempt |-> 0]]
       ELSE /\ video' = Failed(video, "Error al regenerar video: " \o HeyGenApiError)
            /\ UNCHANGED <<heygen, polls>>
    /\ resp' = VideoResp("regenerate_video", 200, video')

\* the condition under which get_generation_status asks HeyGen
AsksHeyGen(d) ==
    d.heygenVideoId # NoJob /\ d.status \in {"generating", "processing"}

\* GET /{video_id}/status up to the await of heygen.get_video_status, or to
\* its return when HeyGen is not asked
get_generation_status_begin ==
    /\ ~calls.status.waiting
    /\ IF ~video.exists
       THEN /\ resp' = ErrorResp("get_generation_status", 404)
            /\ UNCHANGED calls
       ELSE IF AsksHeyGen(video)
       THEN /\ calls' = [calls EXCEPT !.status =
                            [waiting |-> TRUE, vid_data |-> video,
                             fresh |-> /\ polls[video.heygenVideoId].active
                                       /\ polls[video.heygenVideoId].attempt = 0]]
            /\ resp' = [op |-> "get_generation_status_begin"]
       ELSE /\ resp' = VideoResp("get_generation_status", 200, video)
                       @@ [asked |-> FALSE]
            /\ UNCHANGED calls
    /\ UNCHANGED <<video, heygen, polls>>

\* the update get_generation_status makes when HeyGen answers "completed"
CompletedByQuery(d, j) == [d EXCEPT !.status = "completed", !.videoUrl = j]

\* the provider statuses on which get_generation_status writes the document
QueryWrites(providerStatus) == providerStatus = "completed"

\* GET /{video_id}/status from the return of heygen.get_video_status:
\* answered = FALSE is an exception of the call, which is logged and dropped
get_generation_status_end(answered) ==
    LET seen == calls.status
        vid_data == seen.vid_data
        job == heygen[vid_data.heygenVideoId]
    IN  /\ seen.waiting
        /\ calls' = [calls EXCEPT !.status = NoCall]
        /\ IF answered /\ QueryWrites(job.status)
           THEN /\ video' = CompletedByQuery(video, vid_data.heygenVideoId)
                /\ resp' = VideoResp("get_generation_status", 200, video')
                           @@ [asked |-> TRUE, fresh |-> seen.fresh,
                               seen |-> vid_data.status, provider |-> job.status]
           ELSE /\ UNCHANGED video
                /\ resp' = VideoResp("get_generation_status", 200, vid_data)
                           @@ [asked |-> TRUE, fresh |-> seen.fresh,
                               seen |-> vid_data.status,
                               provider |-> IF answered THEN job.status ELSE "exception"]
        /\ UNCHANGED <<heygen, polls>>


\* a plausible slip: the fallback text replaces an absent provider error
PollErrorMessageOrDefault(job) ==
    IF job.error = None THEN "Video generation failed" ELSE job.error

\* the errorMessage a poll stores when HeyGen answers "failed":
\* status_data.get("error", ...), and the key is always present
PollErrorMessage(job) == job.error

\* the document after one answer of HeyGen to the poll loop
PolledVideo(d, j, job) ==
    IF job.status = "completed"
    THEN [d EXCEPT !.status = "completed", !.videoUrl = j, !.errorMessage = None]
    ELSE IF job.status = "failed"
    THEN [d EXCEPT !.status = "failed", !.errorMessage = PollErrorMessage(job)]
    ELSE IF job.status = "processing"
    THEN [d EXCEPT !.status = "processing"]
    ELSE d

\* one iteration of the loop of _poll_heygen_status(video_id, j) that runs
\* up to limit attempts: answered = FALSE is an exception of the call
_poll_heygen_status(j, limit, answered) ==
    /\ polls[j].active
    /\ polls[j].attempt < limit
    /\ IF answered
       THEN /\ video' = PolledVideo(video, j, heygen[j])
            /\ polls' = IF heygen[j].status \in {"completed", "failed"}
                        THEN [polls EXCEPT ![j].active = FALSE]
                        ELSE [polls EXCEPT ![j].attempt = @ + 1]
            /\ resp' = [op |-> "_poll_heygen_status", job |-> j,
                        provider |-> heygen[j].status, error |-> heygen[j].error]
       ELSE /\ polls' = [polls EXCEPT ![j].attempt = @ + 1]
            /\ resp' = [op |-> "_poll_heygen_status", job |-> j,
                        provider |-> "exception", error |-> None]
            /\ UNCHANGED video
    /\ UNCHANGED <<heygen, calls>>

\* the end of the loop of _poll_heygen_status after limit attempts
_poll_heygen_status_timeout(j, limit) ==
    /\ polls[j].active
    /\ polls[j].attempt >= limit
    /\ video' = Failed(video, TimeoutMessage)
    /\ polls' = [polls EXCEPT ![j].active = FALSE]
    /\ resp' = [op |-> "_poll_heygen_status_timeout", job |-> j]
    /\ UNCHANGED <<heygen, calls>>

\* HeyGen works on a job: pending -> processing -> completed or failed
HeyGenProgress(j, to, error) ==
    /\ heygen[j].started
    /\ \/ heygen[j].status = "pending" /\ to = "processing"
       \/ heygen[j].status \in {"pending", "processing"} /\ to \in {"completed", "failed"}
    /\ error \in ProviderErrors
    /\ to # "failed" => error = None
    /\ heygen' = [heygen EXCEPT ![j].status = to, ![j].error = error]
    /\ resp' = [op |-> "heygen"]
    /\ UNCHANGED <<video, polls, calls>>


(***************************************************************************)
(* Access codes (access_codes.py) and the users they log in (users.py).   *)
(* A code is a sequence of characters, so that upper() and strip() act on  *)
(* it as they do in the handlers.  Every handler runs to completion: the   *)
(* Firestore calls block and the awaited helpers never suspend.            *)
(***************************************************************************)
LowerCase ==
    <<"a", "b", "c", "d", "e", "f", "g", "h", "i", "j", "k", "l", "m",
      "n", "o", "p", "q", "r", "s", "t", "u", "v", "w", "x", "y", "z">>
UpperCase ==
    <<"A", "B", "C", "D", "E", "F", "G", "H", "I", "J", "K", "L", "M",
      "N", "O", "P", "Q", "R", "S", "T", "U", "V", "W", "X", "Y", "Z">>
Whitespace == {" ", "\t", "\n"}

UpperChar(ch) ==
    IF \E i \in 1..Len(LowerCase) : LowerCase[i] = ch
    THEN UpperCase[CHOOSE i \in 1..Len(LowerCase) : LowerCase[i] = ch]
    ELSE ch

\* str.upper()
upper(s) == [i \in 1..Len(s) |-> UpperChar(s[i])]

\* str.strip()
strip(s) ==
    LET kept == {i \in 1..Len(s) : s[i] \notin Whitespace}
    IN  IF kept = {} THEN <<>>
        ELSE SubSeq(s, CHOOSE i \in kept : \A j \in kept : i <= j,
                       CHOOSE i \in kept : \A j \in kept : j <= i)

\* a plausible slip: the case of the submitted code is kept
NormalizedCodeStripOnly(code) == strip(code)

\* code = request.code.upper().strip()
NormalizedCode(code) == strip(upper(code))

\* values _generate_access_code can return: 6 characters of its alphabet
GeneratedCodes ==
    {<<"A", "B", "C", "2", "3", "4">>, <<"X", "Y", "Z", "7", "8", "9">>}
NoCode == <<>>

UserIds == {"student1", "author1"}
NoUser == "nobody"
Admin == "admin1"

\* the users collection when the behaviour starts: one student and one
\* author, created through the users endpoints
SomeUsers ==
    [u \in UserIds |->
        [exists |-> TRUE, role |-> IF u = "student1" THEN "student" ELSE "author",
         accessCode |-> NoCode, isDisabled |-> FALSE, isDisbaled |-> FALSE,
         is_disabled |-> FALSE, passwordHash |-> TRUE]]

\* documents of access_codes whose "code" field equals code
CodeDocs(code) ==
    {i \in 1..Len(accessCodes) : accessCodes[i].exists /\ accessCodes[i].code = code}

\* datetime.utcnow() + timedelta(days=expires_in_days); NoTime is None
ExpiresAt(expires_in_days) ==
    IF expires_in_days # 0 THEN now + expires_in_days * SecondsPerDay ELSE NoTime

\* a plausible slip: the query selects used == True, so nothing changes
DeactivatedUsedOnly(codes, student_id) ==
    [i \in 1..Len(codes) |->
        IF codes[i].exists /\ codes[i].studentId = student_id /\ codes[i].used
        THEN [codes[i] EXCEPT !.used = TRUE]
        ELSE codes[i]]

\* the loop "Deactivate any previous unused codes for this student"
Deactivated(codes, student_id) ==
    [i \in 1..Len(codes) |->
        IF codes[i].exists /\ codes[i].studentId = student_id /\ ~codes[i].used
        THEN [codes[i] EXCEPT !.used = TRUE]
        ELSE codes[i]]

\* POST /access-codes/generate.  code is the outcome of the loop of at most
\* 10 draws: a drawn code no document holds, or NoCode when every draw was
\* of a code in use
generate_access_code(student_id, expires_in_days, code) ==
    /\ Len(accessCodes) < MaxCodes
    /\ code \in GeneratedCodes \cup {NoCode}
    /\ IF student_id \notin UserIds \/ ~users[student_id].exists
       THEN /\ code = NoCode
            /\ resp' = [op |-> "generate_access_code", http |-> 404]
            /\ UNCHANGED <<accessCodes, users>>
       ELSE IF users[student_id].role # "student"
       THEN /\ code = NoCode
            /\ resp' = [op |-> "generate_access_code", http |-> 400]
            /\ UNCHANGED <<accessCodes, users>>
       ELSE IF code = NoCode
       THEN /\ \E c \in GeneratedCodes : CodeDocs(c) # {}
            /\ resp' = [op |-> "generate_access_code", http |-> 500]
            /\ UNCHANGED <<accessCodes, users>>
       ELSE /\ CodeDocs(code) = {}
            /\ accessCodes' = Append(Deactivated(accessCodes, student_id),
                                  [exists |-> TRUE, code |-> code,
                                   studentId |-> student_id, used |-> FALSE,
                                   usedAt |-> FALSE,
                                   expiresAt |-> ExpiresAt(expires_in_days)])
            /\ users' = [users EXCEPT ![student_id].accessCode = code]
            /\ resp' = [op |-> "generate_access_code", http |-> 200, code |-> code]
    /\ UNCHANGED now


\* AccessCodeValidateResponse(valid=False, message=...)
Rejected(request, message) ==
    [op |-> "validate_access_code", request |-> request, valid |-> FALSE,
     message |-> message, access_token |-> FALSE, student |-> NoUser]

\* the tail of validate_access_code, once the student is known
DisabledOrToken(request, student_id) ==
    IF users[student_id].isDisabled
    THEN Rejected(request, "Esta cuenta está deshabilitada")
    ELSE [op |-> "validate_access_code", request |-> request, valid |-> TRUE,
          message |-> "Código validado exitosamente", access_token |-> TRUE,
          student |-> student_id]

\* datetime.utcnow() > expires_at, for an expires_at that is set
Expired(code_data) == code_data.expiresAt # NoTime /\ now > code_data.expiresAt

\* POST /access-codes/validate with request.code = request
validate_access_code(request) ==
    LET code == NormalizedCode(request)
        docs == CodeDocs(code)
        user_docs == {u \in UserIds : users[u].exists /\ users[u].accessCode = code}
    IN  /\ IF code = <<>> \/ Len(code) < MinCodeLen
           THEN /\ resp' = Rejected(request, "Invalid access code format")
                /\ UNCHANGED accessCodes
           ELSE IF docs = {}
           THEN /\ IF user_docs = {}
                   THEN resp' = Rejected(request, "Código de acceso inválido")
                   ELSE \E u \in user_docs : resp' = DisabledOrToken(request, u)
                /\ UNCHANGED accessCodes
           ELSE \E i \in docs :
                  LET code_data == accessCodes[i]
                      student_id == code_data.studentId
                  IN  IF code_data.used
                      THEN /\ resp' = Rejected(request, "Este código ya fue utilizado")
                           /\ UNCHANGED accessCodes
                      ELSE IF Expired(code_data)
                      THEN /\ resp' = Rejected(request, "Este código ha expirado")
                           /\ UNCHANGED accessCodes
                      ELSE IF ~users[student_id].exists
                      THEN /\ resp' = Rejected(request, "Estudiante no encontrado")
                           /\ UNCHANGED accessCodes
                      ELSE /\ accessCodes' = [accessCodes EXCEPT ![i].used = TRUE,
                                                                 ![i].usedAt = TRUE]
                           /\ resp' = DisabledOrToken(request, student_id)
        /\ UNCHANGED <<users, now>>

\* DELETE /access-codes/{code}
revoke_access_code(code) ==
    LET docs == CodeDocs(upper(code))
    IN  /\ IF docs = {}
           THEN /\ resp' = [op |-> "revoke_access_code", http |-> 404]
                /\ UNCHANGED accessCodes
           ELSE /\ \E i \in docs : accessCodes' = [accessCodes EXCEPT ![i].exists = FALSE]
                /\ resp' = [op |-> "revoke_access_code", http |-> 200]
        /\ UNCHANGED <<users, now>>

\* POST /users/{user_id}/disable and /enable, called by current_user
set_disabled(opname, user_id, current_user, disabled) ==
    /\ IF user_id \notin UserIds \/ ~users[user_id].exists
       THEN /\ resp' = [op |-> opname, http |-> 404]
            /\ UNCHANGED users
       ELSE IF disabled /\ user_id = current_user
       THEN /\ resp' = [op |-> opname, http |-> 400]
            /\ UNCHANGED users
       ELSE /\ users' = [users EXCEPT ![user_id].isDisabled = disabled]
            /\ resp' = [op |-> opname, http |-> 200]
    /\ UNCHANGED <<accessCodes, now>>

disable_user(user_id, current_user) ==
    set_disabled("disable_user", user_id, current_user, TRUE)

enable_user(user_id, current_user) ==
    set_disabled("enable_user", user_id, current_user, FALSE)

\* DELETE /users/{user_id}
delete_user(user_id, current_user) ==
    /\ IF user_id \notin UserIds \/ ~users[user_id].exists
       THEN /\ resp' = [op |-> "delete_user", http |-> 404]
            /\ UNCHANGED users
       ELSE IF user_id = current_user
       THEN /\ resp' = [op |-> "delete_user", http |-> 400]
            /\ UNCHANGED users
       ELSE /\ users' = [users EXCEPT ![user_id].exists = FALSE]
            /\ resp' = [op |-> "delete_user", http |-> 204]
    /\ UNCHANGED <<accessCodes, now>>

\* a day passes
DayPasses ==
    /\ now + SecondsPerDay <= MaxDays * SecondsPerDay
    /\ now' = now + SecondsPerDay
    /\ resp' = [op |-> "day"]
    /\ UNCHANGED <<accessCodes, users>>


(***************************************************************************)
(* The synchronous generators: generate_quiz, generate_flashcards,        *)
(* generate_presentation, generate_mindmap, generate_audio and            *)
(* generate_podcast.  Each creates its document, awaits the provider and  *)
(* answers with the document it reads back.  The first document of each   *)
(* kind is followed.                                                       *)
(***************************************************************************)
Kinds == {"quiz", "flashcards", "presentation", "mindmap", "audio", "podcast"}

NoArtifact == [exists |-> FALSE, status |-> "pending", errorMessage |-> None]

\* str(e) of the exception a provider call raised
ProviderError == "provider error"
JsonErrorMessage == "Error al procesar la respuesta de IA"

\* the checks that answer 400 before a document is created: size is
\* num_questions, num_cards, num_slides, depth, len(text) or
\* duration_minutes; stripped is len(text.strip()); speakers is
\* num_speakers; known_speakers tells whether every speaker id is valid
Valid(kind, request) ==
    CASE kind \in {"quiz", "flashcards"} ->
            ~(request.size < 3) /\ ~(request.size > 30)
      [] kind = "presentation" -> ~(request.size < 3 \/ request.size > 20)
      [] kind = "mindmap" -> ~(request.size < 1 \/ request.size > 5)
      [] kind = "audio" -> ~(request.size > 5000) /\ ~(request.stripped = 0)
      [] kind = "podcast" ->
            /\ ~(request.size < 1 \/ request.size > 60)
            /\ ~(request.speakers < 1 \/ request.speakers > 4)
            /\ request.known_speakers

\* the status of the document the handler creates
InitialStatus(kind) == IF kind = "podcast" THEN "generating_script" ELSE "generating"

\* the provider answers whose JSON the handler parses itself
ParsesJson(kind) == kind \in {"quiz", "flashcards"}

\* artifacts accepted so far, the avatar video included
Accepted ==
    Cardinality({k \in Kinds : artifacts[k].exists}) + (IF video.exists THEN 1 ELSE 0)

\* POST /generate of a synchronous generator up to its first provider call
generate_artifact(kind, request) ==
    /\ ~artifacts[kind].exists
    /\ tasks[kind] = "idle"
    /\ Accepted < MaxArtifacts
    /\ IF ~Valid(kind, request)
       THEN /\ resp' = [op |-> "generate", kind |-> kind, http |-> 400,
                        upstream |-> "not called"]
            /\ UNCHANGED <<artifacts, tasks>>
       ELSE /\ artifacts' = [artifacts EXCEPT ![kind] =
                                [exists |-> TRUE, status |-> InitialStatus(kind),
                                 errorMessage |-> None]]
            /\ tasks' = [tasks EXCEPT ![kind] =
                            IF kind = "podcast" THEN "script" ELSE "provider"]
            /\ resp' = [op |-> "generate_begin", kind |-> kind]

generate_quiz(request) == generate_artifact("quiz", request)
generate_flashcards(request) == generate_artifact("flashcards", request)
generate_presentation(request) == generate_artifact("presentation", request)
generate_mindmap(request) == generate_artifact("mindmap", request)
generate_audio(request) == generate_artifact("audio", request)
generate_podcast(request) == generate_artifact("podcast", request)

\* a plausible slip: the except block records the status only
FailedArtifactWithoutMessage(d, message) == [d EXCEPT !.status = "failed"]

\* the update of the except blocks: status failed and errorMessage
FailedArtifact(d, message) ==
    [d EXCEPT !.status = "failed", !.errorMessage = message]

\* the answer of a synchronous generator: the document read back
ArtifactResp(kind, d, outcome) ==
    [op |-> "generate", kind |-> kind,
     http |-> 200,
     status |-> d.status, error_message |-> d.errorMessage, upstream |-> outcome]

\* _generate_podcast_script_task from the return of the script call that
\* succeeded: _generate_podcast_audio_task starts and awaits the TTS
podcast_script_done ==
    /\ tasks["podcast"] = "script"
    /\ artifacts' = [artifacts EXCEPT !["podcast"].status = "generating_audio"]
    /\ tasks' = [tasks EXCEPT !["podcast"] = "audio"]
    /\ resp' = [op |-> "podcast_script_done", kind |-> "podcast"]

\* the stage a generator runs after a provider call returned, with the audio
\* stage entered whatever the script call returned
StageAfterIgnoringFailure(stage, outcome) ==
    IF stage = "script" THEN "audio" ELSE "idle"

\* the stage a generator runs after a provider call returned: an exception
\* of the script call leaves the try block before the audio task is awaited,
\* and every other return is the generator's last
StageAfter(stage, outcome) ==
    IF stage = "script" /\ outcome = "ok" THEN "audio" ELSE "idle"

\* a synchronous generator from the return of its last provider call, or
\* from an exception of any of them, to its answer
provider_returns(kind, outcome) ==
    /\ tasks[kind] # "idle"
    /\ outcome \in {"ok", "bad_json", "error"}
    /\ outcome = "bad_json" => ParsesJson(kind)
    /\ outcome = "ok" => tasks[kind] # "script"
    /\ artifacts' = [artifacts EXCEPT ![kind] =
            IF outcome = "ok" THEN [@ EXCEPT !.status = "completed"]
            ELSE IF outcome = "bad_json"
            THEN FailedArtifact(@, JsonErrorMessage)
            ELSE FailedArtifact(@, ProviderError)]
    /\ tasks' = [tasks EXCEPT ![kind] = StageAfter(@, outcome)]
    /\ resp' = ArtifactResp(kind, artifacts'[kind], outcome)
                @@ [stage |-> tasks[kind]]


(***************************************************************************)
(* SpecVideo: one avatar video, its HeyGen jobs and poll tasks, under     *)
(* every interleaving of the handlers                                      *)
(***************************************************************************)
ScriptLens == {MinScriptLen - 1, MinScriptLen, MaxScriptLen, MaxScriptLen + 1}

\* nothing was requested yet: no video, no access code, no artifact
\* the admins whose PUT /master-prompt requests are followed
Updaters == {"admin1", "admin2"}

\* no request of the admin is in flight
IdleUpdater ==
    [pc |-> "idle", sent |-> 0, content |-> "", prompt |-> NoDoc, data |-> NoDoc,
     landed |-> 0, http |-> 0]

\* a course as create_course leaves it: no levels, lessonsCount 0
NewCourse ==
    [level |-> FALSE, module |-> FALSE, sections |-> {}, lessons |-> {},
     lessonsCount |-> 0]

NothingInFlight ==
    /\ updaters = [u \in Updaters |-> IdleUpdater]
    /\ issued = {}
    /\ revoked = {}
    /\ course = NewCourse

NoRequests ==
    /\ video = NoVideo
    /\ heygen = [j \in JobIds |-> NoJobRecord]
    /\ polls = [j \in JobIds |-> NoPoll]
    /\ calls = IdleCalls
    /\ accessCodes = <<>>
    /\ users = SomeUsers
    /\ artifacts = [k \in Kinds |-> NoArtifact]
    /\ tasks = [k \in Kinds |-> "idle"]
    /\ lastRead = [id \in DocIds |-> NoReads]
    /\ accounts = <<>>
    /\ fetchedAt = [id \in DocIds |-> NoTime]
    /\ NothingInFlight

\* the process has started on empty collections
Init ==
    /\ store = [id \in DocIds |-> NoDoc]
    /\ cache = [id \in DocIds |-> NoEntry]
    /\ cacheTs = NoTime
    /\ now = 0
    /\ resp = NoResp
    /\ prev = NoResp
    /\ NoRequests

NextVideo ==
    /\ \/ \E n \in ScriptLens : generate_video_begin(n)
       \/ \E outcome \in {"ok", "ValueError", "Exception"} : generate_video_end(outcome)
       \/ cancel_generation
       \/ regenerate_video_begin
       \/ \E outcome \in {"ok", "Exception"} : regenerate_video_end(outcome)
       \/ get_generation_status_begin
       \/ \E answered \in BOOLEAN : get_generation_status_end(answered)
       \/ \E j \in JobIds, answered \in BOOLEAN :
             _poll_heygen_status(j, PollAttempts, answered)
       \/ \E j \in JobIds : _poll_heygen_status_timeout(j, PollAttempts)
       \/ \E j \in JobIds, to \in HeyGenStatus, error \in ProviderErrors :
             HeyGenProgress(j, to, error)
    /\ UNCHANGED <<cfgVars, prev, accessVars, genVars, readVars, userVars, otherVars>>

SpecVideo == Init /\ [][NextVideo]_vars

(***************************************************************************)
(* SpecAccess: access codes of one student, generated, validated and      *)
(* revoked while days pass and accounts are disabled or deleted           *)
(***************************************************************************)
\* codes that clients submit: as issued, in lower case, padded, too short,
\* and never issued
RequestCodes ==
    GeneratedCodes \cup
    {<<"a", "b", "c", "2", "3", "4">>,
     <<" ", "x", "y", "z", "7", "8", "9", "\n">>,
     <<"A", "B", "C">>,
     <<"Q", "Q", "Q", "2", "2", "2">>}

ExpiresInDays == {0, 1}

NextAccess ==
    /\ \/ \E student_id \in UserIds \cup {NoUser}, days \in ExpiresInDays,
            code \in GeneratedCodes \cup {NoCode} :
              generate_access_code(student_id, days, code)
       \/ \E request \in RequestCodes : validate_access_code(request)
       \/ \E code \in RequestCodes : revoke_access_code(code)
       \/ disable_user("student1", Admin)
       \/ enable_user("student1", Admin)
       \/ delete_user("student1", Admin)
       \/ DayPasses
    /\ UNCHANGED <<store, cache, cacheTs, prev, videoVars, genVars, readVars, userVars, otherVars>>

SpecAccess == Init /\ [][NextAccess]_vars

(***************************************************************************)
(* SpecGen: generation requests to the seven main generation endpoints,   *)
(* each ended by a success or a failure of its provider                    *)
(***************************************************************************)
Request(size, stripped, speakers, known_speakers) ==
    [size |-> size, stripped |-> stripped, speakers |-> speakers,
     known_speakers |-> known_speakers]

\* requests at the edges of the checks of each handler
Requests(kind) ==
    CASE kind \in {"quiz", "flashcards"} ->
            {Request(n, n, 0, TRUE) : n \in {2, 3, 30, 31}}
      [] kind = "presentation" -> {Request(n, n, 0, TRUE) : n \in {2, 3, 20, 21}}
      [] kind = "mindmap" -> {Request(n, n, 0, TRUE) : n \in {0, 1, 5, 6}}
      [] kind = "audio" ->
            {Request(1, 0, 0, TRUE), Request(1, 1, 0, TRUE),
             Request(5000, 5000, 0, TRUE), Request(5001, 5001, 0, TRUE)}
      [] kind = "podcast" ->
            {Request(0, 0, 1, TRUE), Request(1, 1, 1, TRUE), Request(60, 60, 4, TRUE),
             Request(61, 61, 4, TRUE), Request(10, 10, 0, TRUE),
             Request(10, 10, 5, TRUE), Request(10, 10, 2, FALSE)}

NextGen ==
    /\ \/ /\ \/ \E request \in Requests("quiz") : generate_quiz(request)
             \/ \E request \in Requests("flashcards") : generate_flashcards(request)
             \/ \E request \in Requests("presentation") : generate_presentation(request)
             \/ \E request \in Requests("mindmap") : generate_mindmap(request)
             \/ \E request \in Requests("audio") : generate_audio(request)
             \/ \E request \in Requests("podcast") : generate_podcast(request)
             \/ podcast_script_done
             \/ \E kind \in Kinds, outcome \in {"ok", "bad_json", "error"} :
                   provider_returns(kind, outcome)
          /\ UNCHANGED videoVars
       \/ /\ \/ Accepted < MaxArtifacts /\ \E n \in ScriptLens : generate_video_begin(n)
             \/ \E outcome \in {"ok", "ValueError", "Exception"} :
                   generate_video_end(outcome)
          /\ UNCHANGED genVars
    /\ UNCHANGED <<cfgVars, prev, accessVars, readVars, userVars, otherVars>>

SpecGen == Init /\ [][NextGen]_vars


(***************************************************************************)
(* SpecMaster: the master prompt and its version history, from an empty   *)
(* store or from the document the prompt service creates                  *)
(***************************************************************************)

InitMaster ==
    /\ store \in {[id \in DocIds |-> NoDoc],
                  [id \in DocIds |-> IF id = MasterId THEN ServiceMasterDefault ELSE NoDoc]}
    /\ cache = [id \in DocIds |-> NoEntry]
    /\ cacheTs = NoTime
    /\ now = 0
    /\ resp = NoResp
    /\ prev = NoResp
    /\ NoRequests

NextMaster ==
    /\ \/ get_master_prompt
       \/ update_master_prompt("X", MaxVersion)
       \/ \E version \in 0..MaxVersion : rollback_master_prompt(version, MaxVersion)
       \/ reset_to_defaults
    /\ UNCHANGED <<prev, videoVars, accessVars, genVars, readVars, userVars, otherVars>>

SpecMaster == InitMaster /\ [][NextMaster]_vars

(***************************************************************************)
(* SpecCfg: the three kinds of configuration documents, the endpoints     *)
(* that read and write the store and the service that reads through the   *)
(* cache                                                                   *)
(***************************************************************************)
\* the operations whose outcome the next step still remembers
Remembered(r) ==
    IF r.op \in {"update_master_prompt", "reset_to_defaults"} THEN r ELSE NoResp

UpdateContents == {"X"}
RequestModules == {"quiz", "lesson", "unknown"}

NextCfg ==
    /\ \/ get_master_prompt
       \/ \E c \in UpdateContents : update_master_prompt(c, CfgMaxVersion)
       \/ \E version \in 0..CfgMaxVersion : rollback_master_prompt(version, CfgMaxVersion)
       \/ reset_to_defaults
       \/ get_structure_template
       \/ \E c \in UpdateContents : update_structure_template(c)
       \/ \E m \in RequestModules : get_module_extension(m)
       \/ \E m \in RequestModules, c \in UpdateContents : update_module_extension(m, c)
       \/ UnifiedPromptService_get_master_prompt
       \/ UnifiedPromptService_get_structure_template
       \/ \E m \in RequestModules : UnifiedPromptService_get_module_extension(m)
       \/ \E m \in RequestModules, configured \in BOOLEAN,
             outcome \in {"ok", "bad_json", "error"} :
               generate_with_unified_prompt(m, configured, outcome)
       \/ Tick
    /\ prev' = Remembered(resp)
    /\ UNCHANGED <<videoVars, accessVars, genVars, readVars, userVars, otherVars>>

SpecCfg == Init /\ [][NextCfg]_vars

\* the lists of at most n elements of S
RECURSIVE SeqsUpTo(_, _)
SeqsUpTo(S, n) ==
    IF n = 0 THEN {<<>>}
    ELSE LET shorter == SeqsUpTo(S, n - 1)
         IN  shorter \cup {Append(q, x) : q \in shorter, x \in S}

\* the elements of a list
Range(q) == {q[i] : i \in DOMAIN q}

(***************************************************************************)
(* SpecRead: the fetches and the writes of the configuration documents,    *)
(* with what each fetch returned remembered until the next write           *)
(***************************************************************************)
ReadOps == {"get_master_prompt", "get_structure_template", "get_module_extension"}

WriteOps ==
    {"update_master_prompt", "rollback_master_prompt", "reset_to_defaults",
     "update_structure_template", "update_module_extension"}

\* the document a fetch asked for
DocOf(r) ==
    IF r.op = "get_master_prompt" THEN MasterId
    ELSE IF r.op = "get_structure_template" THEN StructureId
    ELSE ExtId(r.module)

Returned(r) == [present |-> TRUE, content |-> r.content, current_version |-> r.version]

\* the fetch that answered r was served from the cache
ServedFromCache(r) == r.path = "service" /\ CacheHit(SvcState, DocOf(r))

ReadsAfterFetch(reads, r, hit) ==
    [stored |-> IF hit THEN reads.stored ELSE Returned(r),
     service |-> IF r.path = "service" THEN Returned(r) ELSE reads.service,
     any |-> Returned(r)]

ReadsAfterWrite(reads) == [reads EXCEPT !.stored = NoEntry, !.any = NoEntry]

RememberReads ==
    lastRead' =
        IF resp'.op \in ReadOps /\ resp'.http = 200
        THEN [lastRead EXCEPT ![DocOf(resp')] =
                  ReadsAfterFetch(@, resp', ServedFromCache(resp'))]
        ELSE IF resp'.op \in WriteOps /\ resp'.http = 200
        THEN [id \in DocIds |-> ReadsAfterWrite(lastRead[id])]
        ELSE lastRead

ReadModules == {"quiz"}

NextRead ==
    /\ \/ get_master_prompt
       \/ \E c \in UpdateContents : update_master_prompt(c, CfgMaxVersion)
       \/ reset_to_defaults
       \/ get_structure_template
       \/ \E c \in UpdateContents : update_structure_template(c)
       \/ \E m \in ReadModules : get_module_extension(m)
       \/ \E m \in ReadModules, c \in UpdateContents : update_module_extension(m, c)
       \/ UnifiedPromptService_get_master_prompt
       \/ UnifiedPromptService_get_structure_template
       \/ \E m \in ReadModules : UnifiedPromptService_get_module_extension(m)
       \/ Tick
    /\ RememberReads
    /\ UNCHANGED <<prev, videoVars, accessVars, genVars, userVars, fetchedAt, otherVars>>

SpecRead == Init /\ [][NextRead]_vars

(***************************************************************************)
(* SpecTtl: the fetches of the service, the writes and the clock, with the *)
(* time of the last fetch of each document from the store remembered       *)
(***************************************************************************)
RememberFetchTimes ==
    fetchedAt' =
        IF resp'.op \in ReadOps /\ resp'.http = 200 /\ ~ServedFromCache(resp')
        THEN [fetchedAt EXCEPT ![DocOf(resp')] = now]
        ELSE fetchedAt

NextTtl ==
    /\ \/ \E c \in UpdateContents : update_master_prompt(c, CfgMaxVersion)
       \/ \E c \in UpdateContents : update_structure_template(c)
       \/ UnifiedPromptService_get_master_prompt
       \/ UnifiedPromptService_get_structure_template
       \/ \E m \in ReadModules : UnifiedPromptService_get_module_extension(m)
       \/ Tick
    /\ RememberFetchTimes
    /\ UNCHANGED <<prev, videoVars, accessVars, genVars, userVars, lastRead, otherVars>>

SpecTtl == Init /\ [][NextTtl]_vars


(***************************************************************************)
(* SpecUsers: the three endpoints that create a user document.  None of    *)
(* them awaits between its query and its write, so each is one step        *)
(***************************************************************************)
Emails == {"ana@idecap.pe", "luis@idecap.pe", "Ana@idecap.pe"}

\* a plausible slip: docs[0] of an unfiltered query compared to the email
EmailOfFirstUser(accts, email) == Len(accts) > 0 /\ accts[1].email = email

\* users_ref.where("email", "==", request.email).limit(1) has a document
EmailRegistered(accts, email) == \E i \in DOMAIN accts : accts[i].email = email

\* the check, the write and the answer the three endpoints share
create_account(opname, created, email, role) ==
    /\ Len(accounts) < MaxUsers \/ email \in {accounts[i].email : i \in DOMAIN accounts}
    /\ IF EmailRegistered(accounts, email)
       THEN /\ resp' = [op |-> opname, http |-> 409, email |-> email,
                        detail |-> "Email already registered"]
            /\ UNCHANGED accounts
       ELSE /\ accounts' = Append(accounts, [email |-> email, role |-> role])
            /\ resp' = [op |-> opname, http |-> created, email |-> email,
                        detail |-> None]

\* POST /auth/register
register(email) == create_account("register", 200, email, <<"student">>)

\* POST /users
create_user(email, role) == create_account("create_user", 201, email, role)

\* POST /students
enroll_student(email) == create_account("enroll_student", 201, email, <<"student">>)

\* DELETE /users/{user_id}
delete_account(i) ==
    /\ i \in DOMAIN accounts
    /\ accounts' = SubSeq(accounts, 1, i - 1) \o SubSeq(accounts, i + 1, Len(accounts))
    /\ resp' = [op |-> "delete_user", http |-> 204, email |-> accounts[i].email,
                detail |-> None]

NextUsers ==
    /\ \/ \E email \in Emails : register(email)
       \/ \E email \in Emails, role \in {<<"admin">>, <<"author">>} : create_user(email, role)
       \/ \E email \in Emails : enroll_student(email)
       \/ \E i \in 1..MaxUsers : delete_account(i)
    /\ UNCHANGED <<cfgVars, prev, videoVars, accessVars, genVars, readVars, otherVars>>

SpecUsers == Init /\ [][NextUsers]_vars


(***************************************************************************)
(* SpecPath: get_lesson_path over every small course hierarchy.  A         *)
(* hierarchy is the set of its lessons, each with the documents that       *)
(* contain it; a collection streams its documents in the order of its      *)
(* sequence below                                                          *)
(***************************************************************************)
CourseIds == <<"c1", "c2">>
LevelIds == <<"a1", "a2">>
ModuleIds == <<"m1", "m2">>
SectionIds == <<"s1", "s2">>
LessonIds == {"lesson1", "lesson2"}

Placements ==
    [courseId : Range(CourseIds), levelId : Range(LevelIds),
     moduleId : Range(ModuleIds), sectionId : Range(SectionIds),
     lessonId : LessonIds]

RECURSIVE SetsUpTo(_, _)
SetsUpTo(S, n) ==
    IF n = 0 THEN {{}}
    ELSE LET smaller == SetsUpTo(S, n - 1)
         IN  smaller \cup {h \cup {x} : h \in smaller, x \in S}

Hierarchies == SetsUpTo(Placements, MaxLessons)

NotFound ==
    [found |-> FALSE, courseId |-> None, levelId |-> None,
     moduleId |-> None, sectionId |-> None]

Found(c, l, m, s) ==
    [found |-> TRUE, courseId |-> c, levelId |-> l, moduleId |-> m, sectionId |-> s]

\* lesson_ref.get().exists
LessonExists(h, c, l, m, s, lesson_id) ==
    [courseId |-> c, levelId |-> l, moduleId |-> m, sectionId |-> s,
     lessonId |-> lesson_id] \in h

\* a plausible slip: the ancestors of the result are those of the first
\* section of the module
FirstSectionOf(s) == SectionIds[1]

\* the section of the result
SectionOf(s) == s

\* the loop over the sections of a module, from the i-th on
RECURSIVE InSections(_, _, _, _, _, _)
InSections(h, c, l, m, i, lesson_id) ==
    IF i > Len(SectionIds) THEN NotFound
    ELSE IF LessonExists(h, c, l, m, SectionIds[i], lesson_id)
    THEN Found(c, l, m, SectionOf(SectionIds[i]))
    ELSE InSections(h, c, l, m, i + 1, lesson_id)

\* the loop over the modules of a level, from the i-th on
RECURSIVE InModules(_, _, _, _, _)
InModules(h, c, l, i, lesson_id) ==
    IF i > Len(ModuleIds) THEN NotFound
    ELSE LET inner == InSections(h, c, l, ModuleIds[i], 1, lesson_id)
         IN  IF inner.found THEN inner ELSE InModules(h, c, l, i + 1, lesson_id)

\* the loop over the levels of a course, from the i-th on
RECURSIVE InLevels(_, _, _, _)
InLevels(h, c, i, lesson_id) ==
    IF i > Len(LevelIds) THEN NotFound
    ELSE LET inner == InModules(h, c, LevelIds[i], 1, lesson_id)
         IN  IF inner.found THEN inner ELSE InLevels(h, c, i + 1, lesson_id)

\* the loop over the courses, from the i-th on
RECURSIVE InCourses(_, _, _)
InCourses(h, i, lesson_id) ==
    IF i > Len(CourseIds) THEN NotFound
    ELSE LET inner == InLevels(h, CourseIds[i], 1, lesson_id)
         IN  IF inner.found THEN inner ELSE InCourses(h, i + 1, lesson_id)

\* a caller of get_lesson_path about to call it
LookupRequest(h, lesson_id) ==
    [op |-> "lookup requested", hierarchy |-> h, lesson_id |-> lesson_id,
     path |-> NotFound]

get_lesson_path(h, lesson_id) ==
    /\ resp = LookupRequest(h, lesson_id)
    /\ resp' = [op |-> "get_lesson_path", hierarchy |-> h, lesson_id |-> lesson_id,
                path |-> InCourses(h, 1, lesson_id)]

\* the store holds any of the hierarchies and a lookup is requested
InitPath ==
    /\ store = [id \in DocIds |-> NoDoc]
    /\ cache = [id \in DocIds |-> NoEntry]
    /\ cacheTs = NoTime
    /\ now = 0
    /\ resp \in {LookupRequest(h, lesson_id) : h \in Hierarchies, lesson_id \in LessonIds}
    /\ prev = NoResp
    /\ NoRequests

NextPath ==
    /\ get_lesson_path(resp.hierarchy, resp.lesson_id)
    /\ UNCHANGED <<cfgVars, prev, videoVars, accessVars, genVars, readVars, userVars, otherVars>>

SpecPath == InitPath /\ [][NextPath]_vars


(***************************************************************************)
(* SpecQuiz: POST /quizzes/generate for every small answer of the          *)
(* provider: the questions stored and the totals of the response           *)
(***************************************************************************)
MinQuestions == 3
MaxQuestionsAllowed == 30

\* a question of the provider's JSON: its "points" key may be missing
NoPoints == [given |-> FALSE, points |-> 0]
QuestionPoints == {NoPoints} \cup {[given |-> TRUE, points |-> p] : p \in 1..MaxPoints}

ProviderQuestions == SeqsUpTo(QuestionPoints, MaxQuestions)

\* a plausible slip: q.get("points", 0)
PointsOrZero(q) == IF q.given THEN q.points ELSE 0

\* q.get("points", 1)
PointsOrDefault(q) == IF q.given THEN q.points ELSE 1

\* processed_questions: every stored question has its points
processed_questions(questions) ==
    [i \in DOMAIN questions |-> [given |-> TRUE, points |-> PointsOrDefault(questions[i])]]

\* sum(q.get("points", 1) for q in questions)
RECURSIVE total_points(_)
total_points(questions) ==
    IF questions = <<>> THEN 0
    ELSE PointsOrDefault(Head(questions)) + total_points(Tail(questions))

\* the document generate_quiz leaves for an answer of the provider
QuizDocument(outcome, questions) ==
    IF outcome = "ok"
    THEN [status |-> "completed", questions |-> processed_questions(questions),
          errorMessage |-> None]
    ELSE IF outcome = "bad_json"
    THEN [status |-> "failed", questions |-> <<>>, errorMessage |-> JsonErrorMessage]
    ELSE [status |-> "failed", questions |-> <<>>, errorMessage |-> ProviderError]

\* a request with num_questions = n about to be handled, and what the
\* provider will answer to it
QuizRequested(n, outcome, questions) ==
    [op |-> "quiz requested", num_questions |-> n, upstream |-> outcome,
     provider_questions |-> questions]

\* _quiz_to_response
_quiz_to_response(request, data) ==
    [op |-> "generate_quiz", http |-> 200, num_questions |-> request.num_questions,
     upstream |-> request.upstream, provider_questions |-> request.provider_questions,
     status |-> data.status, questions |-> data.questions,
     total_questions |-> Len(data.questions),
     total_points |-> total_points(data.questions),
     error_message |-> data.errorMessage]

\* generate_quiz answers 400 before it writes
quiz_rejected ==
    /\ resp.op = "quiz requested"
    /\ resp.num_questions < MinQuestions \/ resp.num_questions > MaxQuestionsAllowed
    /\ resp' = [op |-> "generate_quiz", http |-> 400,
                num_questions |-> resp.num_questions, upstream |-> "not called"]

\* generate_quiz from the creation of the document to the response
quiz_generated ==
    /\ resp.op = "quiz requested"
    /\ resp.num_questions >= MinQuestions
    /\ resp.num_questions <= MaxQuestionsAllowed
    /\ resp' = _quiz_to_response(resp, QuizDocument(resp.upstream, resp.provider_questions))

InitQuiz ==
    /\ store = [id \in DocIds |-> NoDoc]
    /\ cache = [id \in DocIds |-> NoEntry]
    /\ cacheTs = NoTime
    /\ now = 0
    /\ resp \in {QuizRequested(n, "ok", questions) :
                    n \in (MinQuestions - 1)..MaxQuestions, questions \in ProviderQuestions}
                \cup {QuizRequested(n, outcome, <<>>) :
                    n \in (MinQuestions - 1)..MaxQuestions, outcome \in {"bad_json", "error"}}
    /\ prev = NoResp
    /\ NoRequests

NextQuiz ==
    /\ \/ quiz_rejected
       \/ quiz_generated
    /\ UNCHANGED <<cfgVars, prev, videoVars, accessVars, genVars, readVars, userVars, otherVars>>

SpecQuiz == InitQuiz /\ [][NextQuiz]_vars


(***************************************************************************)
(* SpecPoll: the poll task of one accepted generation request, with its    *)
(* own limit of attempts and the clock its sleeps advance                  *)
(***************************************************************************)
PollInterval == 30

\* the job whose poll task is followed
PolledJob == 1

\* a plausible slip: the except branch counts the attempt without sleeping
AfterSleepUnlessError(t, polling, answered) ==
    IF polling /\ answered THEN t + PollInterval ELSE t

\* the clock after an iteration: both branches that stay in the loop sleep
AfterSleep(t, polling, answered) ==
    IF polling THEN t + PollInterval ELSE t

\* one iteration of the loop with max_attempts, and its sleep
poll_iteration(answered) ==
    /\ _poll_heygen_status(PolledJob, max_attempts, answered)
    /\ now' = AfterSleep(now, polls'[PolledJob].active, answered)

\* the update after the loop
poll_timeout ==
    /\ _poll_heygen_status_timeout(PolledJob, max_attempts)
    /\ UNCHANGED now

\* HeyGen works on the job
poll_heygen_progress ==
    /\ \E to \in HeyGenStatus, error \in ProviderErrors :
          HeyGenProgress(PolledJob, to, error)
    /\ UNCHANGED now

\* generate_video has answered: the job is started and its poll task is
\* scheduled
InitPoll ==
    /\ store = [id \in DocIds |-> NoDoc]
    /\ cache = [id \in DocIds |-> NoEntry]
    /\ cacheTs = NoTime
    /\ now = 0
    /\ resp = NoResp
    /\ prev = NoResp
    /\ video = [NewVideo EXCEPT !.status = "generating", !.heygenVideoId = PolledJob]
    /\ heygen = [j \in JobIds |->
                    IF j = PolledJob THEN [NoJobRecord EXCEPT !.started = TRUE]
                    ELSE NoJobRecord]
    /\ polls = [j \in JobIds |->
                    IF j = PolledJob THEN [active |-> TRUE, attempt |-> 0] ELSE NoPoll]
    /\ calls = IdleCalls
    /\ accessCodes = <<>>
    /\ users = SomeUsers
    /\ artifacts = [k \in Kinds |-> NoArtifact]
    /\ tasks = [k \in Kinds |-> "idle"]
    /\ lastRead = [id \in DocIds |-> NoReads]
    /\ accounts = <<>>
    /\ fetchedAt = [id \in DocIds |-> NoTime]
    /\ NothingInFlight

\* what the poll task and HeyGen leave alone
PollUnchanged ==
    UNCHANGED <<store, cache, cacheTs, prev, calls, accessVars, genVars,
                readVars, userVars, otherVars>>

\* the poll task takes its next step
PollTaskRuns ==
    /\ \/ \E answered \in BOOLEAN : poll_iteration(answered)
       \/ poll_timeout
    /\ PollUnchanged

NextPoll ==
    \/ PollTaskRuns
    \/ poll_heygen_progress /\ PollUnchanged

\* the event loop runs a task that can run
SpecPoll == InitPoll /\ [][NextPoll]_vars /\ WF_vars(PollTaskRuns)

(***************************************************************************)
(* SpecRace: two admins update the master prompt at the same time.  Inside *)
(* one process the handler runs without suspending; two processes of the   *)
(* API interleave at the Firestore calls, which is what the three steps    *)
(* of a request allow.                                                     *)
(***************************************************************************)
MaxUpdates == 2         \* requests each admin sends in SpecRace

\* request.content of the admin's n-th request
RequestTexts ==
    [admin1 |-> <<"first of admin1", "second of admin1", "third of admin1">>,
     admin2 |-> <<"first of admin2", "second of admin2", "third of admin2">>]

RequestContent(u, n) == RequestTexts[u][((n - 1) % Len(RequestTexts[u])) + 1]

\* document(doc_id).update(data) keeping every stored version
update_document_appending(s, id, data) ==
    [s EXCEPT ![id] = [@ EXCEPT !.content = data.content,
                                !.current_version = data.current_version,
                                !.has_versions = TRUE,
                                !.versions = @ \o data.versions]]

\* update_document: document(doc_id).update(data) replaces the fields of data
update_document(s, id, data) ==
    [s EXCEPT ![id] = [@ EXCEPT !.content = data.content,
                                !.current_version = data.current_version,
                                !.has_versions = TRUE,
                                !.versions = data.versions]]

\* the writes that have landed so far
Landed == {updaters[u].landed : u \in Updaters}

LastLanded == CHOOSE n \in Landed : \A m \in Landed : m <= n

\* update_master_prompt up to update_data: the prompt is read, the version made
update_master_prompt_reads(u) ==
    LET prompt == get_or_create_master_prompt(store)
        c == RequestContent(u, updaters[u].sent + 1)
        update_data == [exists |-> TRUE, content |-> c,
                        current_version |-> NewVersion(prompt),
                        has_versions |-> TRUE,
                        versions |-> UpdatedVersions(prompt, c)]
    IN  /\ updaters[u].pc \in {"idle", "done"}
        /\ updaters[u].sent < MaxUpdates
        /\ store' = StoreAfterGetOrCreateMaster(store)
        /\ updaters' = [updaters EXCEPT ![u] =
               [@ EXCEPT !.pc = "read", !.content = c, !.prompt = prompt,
                         !.data = update_data, !.sent = @ + 1, !.http = 0]]
        /\ resp' = [op |-> "update_master_prompt_reads", admin |-> u]

\* await update_document(COLLECTION, "master_prompt", update_data)
update_master_prompt_writes(u) ==
    /\ updaters[u].pc = "read"
    /\ store' = update_document(store, MasterId, updaters[u].data)
    /\ updaters' = [updaters EXCEPT ![u] =
           [@ EXCEPT !.pc = "written", !.landed = LastLanded + 1]]
    /\ resp' = [op |-> "update_master_prompt_writes", admin |-> u]

\* updated = await get_document(...); return updated
update_master_prompt_returns(u) ==
    LET updated == get_document(store, MasterId)
    IN  /\ updaters[u].pc = "written"
        /\ updaters' = [updaters EXCEPT ![u] = [@ EXCEPT !.pc = "done", !.http = 200]]
        /\ resp' = [op |-> "update_master_prompt", path |-> "endpoint", http |-> 200,
                    admin |-> u, content |-> updated.content,
                    version |-> updated.current_version,
                    request |-> updaters[u].content,
                    before |-> updaters[u].prompt.current_version]
        /\ UNCHANGED store

NextRace ==
    /\ \E u \in Updaters :
          \/ update_master_prompt_reads(u)
          \/ update_master_prompt_writes(u)
          \/ update_master_prompt_returns(u)
    /\ UNCHANGED <<cache, cacheTs, now, prev, videoVars, accessVars, genVars,
                   readVars, userVars, codeVars, course>>

SpecRace == Init /\ [][NextRace]_vars


(***************************************************************************)
(* SpecCodes: the access codes of two students, generated, validated and   *)
(* revoked, with a record of the codes that have logged a student in and   *)
(* of the codes that were revoked                                          *)
(***************************************************************************)
\* both users of the collection are students
TwoStudents ==
    [u \in UserIds |->
        [exists |-> TRUE, role |-> "student", accessCode |-> NoCode,
         isDisabled |-> FALSE, isDisbaled |-> FALSE, is_disabled |-> FALSE,
         passwordHash |-> TRUE]]

\* codes whose document the step deleted
DeletedCodes ==
    {accessCodes[i].code : i \in {j \in 1..Len(accessCodes) :
                                     accessCodes[j].exists /\ ~accessCodes'[j].exists}}

\* the code a successful generate_access_code has just created
CreatedCodes ==
    IF resp'.op = "generate_access_code" /\ resp'.http = 200 THEN {resp'.code} ELSE {}

RememberCodes ==
    /\ issued' =
          IF resp'.op = "validate_access_code" /\ resp'.access_token
          THEN issued \cup {NormalizedCode(resp'.request)}
          ELSE issued \ CreatedCodes
    /\ revoked' = (revoked \cup DeletedCodes) \ CreatedCodes

InitCodes ==
    /\ store = [id \in DocIds |-> NoDoc]
    /\ cache = [id \in DocIds |-> NoEntry]
    /\ cacheTs = NoTime
    /\ now = 0
    /\ resp = NoResp
    /\ prev = NoResp
    /\ video = NoVideo
    /\ heygen = [j \in JobIds |-> NoJobRecord]
    /\ polls = [j \in JobIds |-> NoPoll]
    /\ calls = IdleCalls
    /\ accessCodes = <<>>
    /\ users = TwoStudents
    /\ artifacts = [k \in Kinds |-> NoArtifact]
    /\ tasks = [k \in Kinds |-> "idle"]
    /\ lastRead = [id \in DocIds |-> NoReads]
    /\ accounts = <<>>
    /\ fetchedAt = [id \in DocIds |-> NoTime]
    /\ NothingInFlight

NextCodes ==
    /\ \/ \E student_id \in UserIds \cup {NoUser}, days \in ExpiresInDays,
            code \in GeneratedCodes \cup {NoCode} :
              generate_access_code(student_id, days, code)
       \/ \E request \in RequestCodes : validate_access_code(request)
       \/ \E code \in RequestCodes : revoke_access_code(code)
       \/ DayPasses
    /\ RememberCodes
    /\ UNCHANGED <<store, cache, cacheTs, prev, videoVars, genVars, readVars,
                   userVars, updaters, course>>

SpecCodes == InitCodes /\ [][NextCodes]_vars


(***************************************************************************)
(* SpecIssue: codes are generated for two students and validated while     *)
(* days pass; no code is revoked                                           *)
(***************************************************************************)
NextIssue ==
    /\ \/ \E student_id \in UserIds \cup {NoUser}, days \in ExpiresInDays,
            code \in GeneratedCodes \cup {NoCode} :
              generate_access_code(student_id, days, code)
       \/ \E request \in RequestCodes : validate_access_code(request)
       \/ DayPasses
    /\ UNCHANGED <<store, cache, cacheTs, prev, videoVars, genVars, readVars,
                   userVars, otherVars>>

SpecIssue == InitCodes /\ [][NextIssue]_vars


(***************************************************************************)
(* SpecLogin: accounts are disabled, enabled and deleted by an admin while *)
(* their owners log in with a password or with Google (auth.py).  A key    *)
(* that a document lacks reads as false, as .get() of a missing key does   *)
(* in a condition.                                                         *)
(***************************************************************************)
\* a rejected login: HTTPException(status_code=http)
LoginRejected(opname, user, http) ==
    [op |-> opname, user |-> user, http |-> http, access_token |-> FALSE]

\* TokenResponse(access_token=...)
LoginToken(opname, user) ==
    [op |-> opname, user |-> user, http |-> 200, access_token |-> TRUE]

\* user_data.get("isDisbaled") or user_data.get("is_disabled")
LoginSeesDisabled(user_data) == user_data.isDisbaled \/ user_data.is_disabled

\* POST /auth/login with the email of user and a password that matches or not
login(user, password_matches) ==
    /\ IF user \notin UserIds \/ ~users[user].exists
       THEN resp' = LoginRejected("login", user, 401)
       ELSE IF ~users[user].passwordHash \/ ~password_matches
       THEN resp' = LoginRejected("login", user, 401)
       ELSE IF LoginSeesDisabled(users[user])
       THEN resp' = LoginRejected("login", user, 403)
       ELSE resp' = LoginToken("login", user)
    /\ UNCHANGED <<accessCodes, users, now>>

\* user_data of the document google_auth creates
GoogleUser ==
    [exists |-> TRUE, role |-> "student", accessCode |-> NoCode,
     isDisabled |-> FALSE, isDisbaled |-> FALSE, is_disabled |-> FALSE,
     passwordHash |-> FALSE]

\* POST /auth/google with an ID token of uid that Firebase verifies or not
google_auth(uid, token_verifies) ==
    /\ IF ~token_verifies
       THEN /\ resp' = LoginRejected("google_auth", uid, 401)
            /\ UNCHANGED users
       ELSE IF users[uid].exists
       THEN /\ resp' = IF LoginSeesDisabled(users[uid])
                       THEN LoginRejected("google_auth", uid, 403)
                       ELSE LoginToken("google_auth", uid)
            /\ UNCHANGED users
       ELSE /\ users' = [users EXCEPT ![uid] = GoogleUser]
            /\ resp' = LoginToken("google_auth", uid)
    /\ UNCHANGED <<accessCodes, now>>

NextLogin ==
    /\ \/ \E user \in UserIds \cup {NoUser}, password_matches \in BOOLEAN :
            login(user, password_matches)
       \/ \E uid \in UserIds, token_verifies \in BOOLEAN : google_auth(uid, token_verifies)
       \/ \E user_id \in UserIds \cup {NoUser} : disable_user(user_id, Admin)
       \/ \E user_id \in UserIds \cup {NoUser} : enable_user(user_id, Admin)
       \/ \E user_id \in UserIds : delete_user(user_id, Admin)
    /\ UNCHANGED <<store, cache, cacheTs, prev, videoVars, genVars, readVars,
                   userVars, otherVars>>

SpecLogin == Init /\ [][NextLogin]_vars


(***************************************************************************)
(* SpecRegen: a video whose first job is still being polled is             *)
(* regenerated; the poll tasks of both jobs and HeyGen run on              *)
(***************************************************************************)
\* the job generate_video started before the behaviour begins
EarlierJob == MaxJobs + 1

\* HeyGen's jobs of the video: those regenerate_video can start, and the earlier one
VideoJobs == JobIds \cup {EarlierJob}

InitRegen ==
    /\ store = [id \in DocIds |-> NoDoc]
    /\ cache = [id \in DocIds |-> NoEntry]
    /\ cacheTs = NoTime
    /\ now = 0
    /\ resp = NoResp
    /\ prev = NoResp
    /\ video = [NewVideo EXCEPT !.status = "generating", !.heygenVideoId = EarlierJob]
    /\ heygen = [j \in VideoJobs |->
                    IF j = EarlierJob THEN [NoJobRecord EXCEPT !.started = TRUE]
                    ELSE NoJobRecord]
    /\ polls = [j \in VideoJobs |->
                    IF j = EarlierJob THEN [active |-> TRUE, attempt |-> 0] ELSE NoPoll]
    /\ calls = IdleCalls
    /\ accessCodes = <<>>
    /\ users = SomeUsers
    /\ artifacts = [k \in Kinds |-> NoArtifact]
    /\ tasks = [k \in Kinds |-> "idle"]
    /\ lastRead = [id \in DocIds |-> NoReads]
    /\ accounts = <<>>
    /\ fetchedAt = [id \in DocIds |-> NoTime]
    /\ NothingInFlight

NextRegen ==
    /\ \/ regenerate_video_begin
       \/ \E outcome \in {"ok", "Exception"} : regenerate_video_end(outcome)
       \/ \E j \in VideoJobs, answered \in BOOLEAN :
             _poll_heygen_status(j, PollAttempts, answered)
       \/ \E j \in VideoJobs : _poll_heygen_status_timeout(j, PollAttempts)
       \/ \E j \in VideoJobs, to \in HeyGenStatus, error \in ProviderErrors :
             HeyGenProgress(j, to, error)
    /\ UNCHANGED <<cfgVars, prev, accessVars, genVars, readVars, userVars, otherVars>>

SpecRegen == InitRegen /\ [][NextRegen]_vars


(***************************************************************************)
(* SpecCourse: the level a1, its module m1, the sections of the module     *)
(* and their lessons are created and deleted in one course (hierarchy.py). *)
(* A lesson is the pair of its section and its document id.                *)
(***************************************************************************)
MaxLessonsCount == 3    \* largest courseMeta.lessonsCount explored by SpecCourse

HierarchyResp(opname, http) == [op |-> opname, http |-> http]

\* the lesson documents under a section
LessonsOf(section_id) == {l \in course.lessons : l[1] = section_id}

\* POST /{course_id}/levels
create_level ==
    /\ ~course.level
    /\ course' = [course EXCEPT !.level = TRUE]
    /\ resp' = HierarchyResp("create_level", 201)

\* POST /{course_id}/levels/{level_id}/modules
create_module ==
    /\ ~course.module
    /\ IF ~course.level
       THEN /\ resp' = HierarchyResp("create_module", 404)
            /\ UNCHANGED course
       ELSE /\ course' = [course EXCEPT !.module = TRUE]
            /\ resp' = HierarchyResp("create_module", 201)

\* POST .../modules/{module_id}/sections; section_id is the uuid4 drawn
create_section(section_id) ==
    /\ section_id \notin course.sections
    /\ IF ~course.module
       THEN /\ resp' = HierarchyResp("create_section", 404)
            /\ UNCHANGED course
       ELSE /\ course' = [course EXCEPT !.sections = @ \cup {section_id}]
            /\ resp' = HierarchyResp("create_section", 201)

\* POST .../sections/{section_id}/lessons; lesson_id is the uuid4 drawn
create_lesson(section_id, lesson_id) ==
    /\ course.lessonsCount < MaxLessonsCount
    /\ \A l \in course.lessons : l[2] # lesson_id
    /\ IF section_id \notin course.sections
       THEN /\ resp' = HierarchyResp("create_lesson", 404)
            /\ UNCHANGED course
       ELSE /\ course' = [course EXCEPT !.lessons = @ \cup {<<section_id, lesson_id>>},
                                        !.lessonsCount = @ + 1]
            /\ resp' = HierarchyResp("create_lesson", 201)

\* max(0, meta.get("lessonsCount", 1) - 1)
CountAfterDelete(lessonsCount) == IF lessonsCount - 1 > 0 THEN lessonsCount - 1 ELSE 0

\* DELETE .../sections/{section_id}/lessons/{lesson_id}
delete_lesson(section_id, lesson_id) ==
    IF <<section_id, lesson_id>> \notin course.lessons
    THEN /\ resp' = HierarchyResp("delete_lesson", 404)
         /\ UNCHANGED course
    ELSE /\ course' = [course EXCEPT !.lessons = @ \ {<<section_id, lesson_id>>},
                                     !.lessonsCount = CountAfterDelete(@)]
         /\ resp' = HierarchyResp("delete_lesson", 204)

\* DELETE .../sections/{section_id}: the lessons, then the section
delete_section(section_id) ==
    IF section_id \notin course.sections
    THEN /\ resp' = HierarchyResp("delete_section", 404)
         /\ UNCHANGED course
    ELSE /\ course' = [course EXCEPT !.lessons = @ \ LessonsOf(section_id),
                                     !.sections = @ \ {section_id}]
         /\ resp' = HierarchyResp("delete_section", 204)

\* DELETE .../modules/{module_id}: lessons and sections, then the module
delete_module ==
    IF ~course.module
    THEN /\ resp' = HierarchyResp("delete_module", 404)
         /\ UNCHANGED course
    ELSE /\ course' = [course EXCEPT !.lessons = {}, !.sections = {}, !.module = FALSE]
         /\ resp' = HierarchyResp("delete_module", 204)

\* DELETE /{course_id}/levels/{level_id}: everything below, then the level
delete_level ==
    IF ~course.level
    THEN /\ resp' = HierarchyResp("delete_level", 404)
         /\ UNCHANGED course
    ELSE /\ course' = [course EXCEPT !.lessons = {}, !.sections = {},
                                     !.module = FALSE, !.level = FALSE]
         /\ resp' = HierarchyResp("delete_level", 204)

\* POST /{course_id}/recalculate-lessons
recalculate_lessons_count ==
    /\ course' = [course EXCEPT !.lessonsCount = Cardinality(course.lessons)]
    /\ resp' = HierarchyResp("recalculate_lessons_count", 200)

NextCourse ==
    /\ \/ create_level
       \/ create_module
       \/ \E section_id \in Range(SectionIds) : create_section(section_id)
       \/ \E section_id \in Range(SectionIds), lesson_id \in LessonIds :
             create_lesson(section_id, lesson_id)
       \/ \E section_id \in Range(SectionIds), lesson_id \in LessonIds :
             delete_lesson(section_id, lesson_id)
       \/ \E section_id \in Range(SectionIds) : delete_section(section_id)
       \/ delete_module
       \/ delete_level
       \/ recalculate_lessons_count
    /\ UNCHANGED <<cfgVars, prev, videoVars, accessVars, genVars, readVars,
                   userVars, updaters, codeVars>>

SpecCourse == Init /\ [][NextCourse]_vars


(***************************************************************************)
(* SpecGuard: the role dependency of the endpoints, for every caller and   *)
(* every allow-list                                                        *)
(***************************************************************************)
Roles == {"admin", "author", "tutor", "student"}

\* the "role" of current_user: a string, or a list of strings
RoleString(r) == [isStr |-> TRUE, str |-> r, list |-> <<>>]
RoleList(q) == [isStr |-> FALSE, str |-> "", list |-> q]
Callers ==
    {RoleString(r) : r \in Roles} \cup {RoleList(q) : q \in SeqsUpTo(Roles, MaxRoles)}

require_admin == <<"admin">>
require_author == <<"admin", "author">>
require_tutor == <<"admin", "author", "tutor">>
AllowLists == {require_admin, require_author, require_tutor}

\* user_roles after the isinstance test
user_roles(role) == IF role.isStr THEN <<role.str>> ELSE role.list

\* a plausible slip: all() in place of any()
EveryRoleAllowed(roles, allowed_roles) ==
    \A i \in DOMAIN roles : \E k \in DOMAIN allowed_roles : roles[i] = allowed_roles[k]

\* any(role in allowed_roles for role in user_roles)
AnyRoleAllowed(roles, allowed_roles) ==
    \E i \in DOMAIN roles : \E k \in DOMAIN allowed_roles : roles[i] = allowed_roles[k]

\* role_checker of require_role(allowed_roles), and the handler that
\* depends on it
role_checker(role, allowed_roles) ==
    LET admitted == AnyRoleAllowed(user_roles(role), allowed_roles)
    IN  resp' = [op |-> "role_checker", role |-> role, allowed_roles |-> allowed_roles,
                 http |-> IF admitted THEN 200 ELSE 403,
                 detail |-> IF admitted THEN None ELSE "Insufficient permissions",
                 handler |-> IF admitted THEN "ran" ELSE "not called"]

NextGuard ==
    /\ \E role \in Callers, allowed_roles \in AllowLists :
          role_checker(role, allowed_roles)
    /\ UNCHANGED <<cfgVars, prev, videoVars, accessVars, genVars, readVars, userVars, otherVars>>

SpecGuard == Init /\ [][NextGuard]_vars


(***************************************************************************)
(* SpecSubst: variable substitution in a template.  A string is a sequence *)
(* of tokens: a brace, a key name, a value or other text                   *)
(***************************************************************************)
\* the keys of variables in the order assemble_prompt inserts them: a
\* context field, always present, then a module parameter, present when the
\* request carries it
VariableKeys == <<"tema", "num_slides">>

Placeholder(key) == <<"{", "{", key, "}", "}">>

Pieces ==
    {<<"text">>, <<"{">>, <<"}">>} \cup {Placeholder(VariableKeys[i]) : i \in DOMAIN VariableKeys}

RECURSIVE Templates(_)
Templates(n) ==
    IF n = 0 THEN {<<>>}
    ELSE LET shorter == Templates(n - 1)
         IN  shorter \cup {q \o p : q \in shorter, p \in Pieces}

Missing == [present |-> FALSE, value |-> None]
Given(v) == [present |-> TRUE, value |-> v]

\* the mappings assemble_prompt builds: a value is a text, the empty text or
\* None
VariableMappings ==
    {[k \in Range(VariableKeys) |-> IF k = "tema" THEN Given(t) ELSE p] :
        t \in {"value", ""}, p \in {Missing, Given("value"), Given(""), Given(None)}}

\* a plausible slip: str(value) without the test of the value
ValueTextOfAnyValue(value) == IF value = "" THEN <<>> ELSE <<value>>

\* str(value) if value else ""
ValueText(value) == IF value = None \/ value = "" THEN <<>> ELSE <<value>>

StartsWith(s, pat) == Len(s) >= Len(pat) /\ SubSeq(s, 1, Len(pat)) = pat

\* str.replace: every occurrence, left to right, without overlap
RECURSIVE Replace(_, _, _)
Replace(s, pat, rep) ==
    IF Len(s) < Len(pat) THEN s
    ELSE IF StartsWith(s, pat)
    THEN rep \o Replace(SubSeq(s, Len(pat) + 1, Len(s)), pat, rep)
    ELSE <<Head(s)>> \o Replace(Tail(s), pat, rep)

\* the loop of _replace_variables over the first n items of variables
RECURSIVE ReplacedUpTo(_, _, _)
ReplacedUpTo(template, variables, n) ==
    IF n = 0 THEN template
    ELSE LET result == ReplacedUpTo(template, variables, n - 1)
             key == VariableKeys[n]
         IN  IF variables[key].present
             THEN Replace(result, Placeholder(key), ValueText(variables[key].value))
             ELSE result

_replace_variables(template, variables) ==
    resp' = [op |-> "_replace_variables", template |-> template,
             variables |-> variables, raised |-> FALSE,
             result |-> ReplacedUpTo(template, variables, Len(VariableKeys))]

NextSubst ==
    /\ \E template \in Templates(MaxPieces), variables \in VariableMappings :
          _replace_variables(template, variables)
    /\ UNCHANGED <<cfgVars, prev, videoVars, accessVars, genVars, readVars, userVars, otherVars>>

SpecSubst == Init /\ [][NextSubst]_vars


(***************************************************************************)
(* Properties of the master prompt history (SpecMaster)                    *)
(***************************************************************************)
Master == store[MasterId]

\* C2: after any sequence of master prompt updates and rollbacks the stored
\* versions list holds at most 10 entries, and the entries kept are the most
\* recent ones (the version numbers run without a gap up to current_version).
C2_VersionsCapped ==
    Master.has_versions =>
        /\ Len(Master.versions) <= KeepVersions
        /\ \A i \in 1..Len(Master.versions) :
              Master.versions[i].version =
                  Master.current_version - Len(Master.versions) + i

\* C4: a rollback to a version N of the stored history succeeds, makes the
\* active content equal to the content stored for N, appends one new entry
\* carrying that content, and leaves every earlier entry as it was.
C4_RollbackCopiesVersion ==
    [][resp'.op = "rollback_master_prompt" =>
        LET pre == VersionsOf(get_or_create_master_prompt(store))
            cur == get_or_create_master_prompt(store).current_version
            N == resp'.target
            post == store'[MasterId]
            inHistory == \E i \in 1..Len(pre) : pre[i].version = N
        IN  /\ inHistory <=> resp'.http = 200
            /\ inHistory =>
                 /\ \A i \in 1..Len(pre) :
                       pre[i].version = N => post.content = pre[i].content
                 /\ Len(post.versions) = Len(pre) + 1
                 /\ \A i \in 1..Len(pre) : post.versions[i] = pre[i]
                 /\ post.versions[Len(pre) + 1] =
                        PromptVersion(cur + 1, post.content)
                 /\ post.current_version = cur + 1]_vars

\* C4 witness: a rollback has succeeded on a history of several entries and
\* brought back a content that differs from the one active before it.
C4_Witness ==
    /\ resp.op = "rollback_master_prompt"
    /\ resp.http = 200
    /\ Len(Master.versions) >= 4
    /\ resp.target < Master.current_version - 1
    /\ Master.versions[Len(Master.versions) - 1].content # Master.content

(***************************************************************************)
(* Properties of the configuration store and its cache (SpecCfg)           *)
(***************************************************************************)
\* C3: whenever the master prompt document exists, current_version is the
\* version number of the last entry of versions.
C3_CurrentVersionIsLastEntry ==
    Master.exists =>
        /\ Len(VersionsOf(Master)) > 0
        /\ VersionsOf(Master)[Len(VersionsOf(Master))].version = Master.current_version

\* C5 as stated: a fetch of the master prompt that immediately follows an
\* update with content X returns X and the pre-update version plus one,
\* whichever way the fetch is made.
C5_FetchAfterUpdate ==
    (prev.op = "update_master_prompt" /\ resp.op = "get_master_prompt") =>
        /\ resp.content = prev.request
        /\ resp.version = prev.before + 1

\* C5 amended: a fetch through GET /master-prompt, which reads the store,
\* that immediately follows an update with content X returns X and the
\* pre-update version plus one.
C5_EndpointFetchAfterUpdate ==
    (/\ prev.op = "update_master_prompt"
     /\ resp.op = "get_master_prompt"
     /\ resp.path = "endpoint") =>
        /\ resp.http = 200
        /\ resp.content = prev.request
        /\ resp.version = prev.before + 1

\* C5 witness: the endpoint fetch right after an update returned the new
\* content while the service cache still holds the older document.
C5_Witness ==
    /\ prev.op = "update_master_prompt"
    /\ resp.op = "get_master_prompt"
    /\ resp.path = "endpoint"
    /\ resp.content = "X"
    /\ resp.version = 2
    /\ cache[MasterId].present
    /\ cache[MasterId].content = DEFAULT_MASTER_PROMPT

FetchOps == {"get_master_prompt", "get_structure_template", "get_module_extension"}

\* the hardcoded default content of the document a fetch asked for
DefaultOf(r) ==
    IF r.op = "get_master_prompt" THEN DEFAULT_MASTER_PROMPT
    ELSE IF r.op = "get_structure_template" THEN DEFAULT_STRUCTURE_TEMPLATE
    ELSE DEFAULT_MODULE_EXTENSIONS[r.module]

\* a fetch of a document that has a hardcoded default
FetchOfDefaulted(r) ==
    /\ r.op \in FetchOps
    /\ r.op = "get_module_extension" => r.module \in DOMAIN DEFAULT_MODULE_EXTENSIONS

C8_UnknownModuleFailsBeforeProvider ==
    (resp.op = "generate_with_unified_prompt" /\ resp.module \notin AIModule) =>
        /\ ~resp.provider_called
        /\ resp.result \in {"ValueError: Unknown module",
                            "ValueError: Gemini API key not configured"}

\* C8 witness: an unknown module was rejected after assembly had begun (the
\* master prompt was fetched and lazily created) and no provider call made.
C8_Witness ==
    /\ resp.op = "generate_with_unified_prompt"
    /\ resp.module = "unknown"
    /\ resp.result = "ValueError: Unknown module"
    /\ ~resp.provider_called
    /\ Master.exists
    /\ cache[MasterId].present

(***************************************************************************)
(* Properties of the avatar video pipeline (SpecVideo)                     *)
(***************************************************************************)
\* the order of the status state machine
Rank(status) ==
    CASE status = "pending" -> 0
      [] status = "queued" -> 1
      [] status = "generating" -> 2
      [] status = "processing" -> 3
      [] status \in {"completed", "failed"} -> 4

RegenerateOps == {"regenerate_video_begin", "regenerate_video"}

\* C1: the status of an artifact only moves forward along its state machine,
\* and once it is completed or failed it changes again only through an
\* explicit regenerate call, under any interleaving of generation requests,
\* poll ticks, status queries and cancel calls.
C1_StatusOnlyMovesForward ==
    [][(/\ video.exists
        /\ video'.status # video.status
        /\ resp'.op \notin RegenerateOps)
          => Rank(video.status) < Rank(video'.status)]_vars

\* a status query that found the document generating with its HeyGen job,
\* made before the poll task of that job had run an iteration
QueryBeforePoll(r) ==
    /\ r.op = "get_generation_status"
    /\ r.http = 200
    /\ r.asked
    /\ r.fresh
    /\ r.seen = "generating"

\* a poll iteration in which HeyGen answered "failed"
PollSawFailed(r) == r.op = "_poll_heygen_status" /\ r.provider = "failed"

\* C10 as stated: a status query made after the generation was accepted and
\* before any poll tick reports generating; a poll on which the provider
\* reports failed makes the status failed and stores the provider's error
\* verbatim.
C10_QueryReportsGenerating ==
    /\ QueryBeforePoll(resp) => resp.status = "generating"
    /\ PollSawFailed(resp) =>
          video.status = "failed" /\ video.errorMessage = resp.error

\* C10 amended: such a status query reports completed when HeyGen already
\* answers completed to the query itself, and generating otherwise, never
\* failed; a poll on which the provider reports failed makes the status
\* failed and stores the provider's error field verbatim.
C10_QueryReportsGeneratingOrCompleted ==
    /\ QueryBeforePoll(resp) =>
          resp.status = IF resp.provider = "completed" THEN "completed"
                        ELSE "generating"
    /\ PollSawFailed(resp) =>
          video.status = "failed" /\ video.errorMessage = resp.error

\* C10 witness: the query was made before the first poll iteration and
\* reported generating, while the poll that ran during the query's await
\* has stored failed with the error of the provider.
C10_Witness ==
    /\ QueryBeforePoll(resp)
    /\ resp.status = "generating"
    /\ resp.provider = "failed"
    /\ video.status = "failed"
    /\ video.errorMessage = "render failed"
    /\ video.errorMessage = heygen[video.heygenVideoId].error

(***************************************************************************)
(* Properties of the access codes (SpecAccess)                             *)
(***************************************************************************)
\* C7: validating an access code whose record is already marked used is
\* rejected with the message "Este código ya fue utilizado" and no JWT is
\* issued for that request.
C7_UsedCodeRejected ==
    [][(/\ resp'.op = "validate_access_code"
        /\ \E i \in 1..Len(accessCodes) :
              /\ accessCodes[i].exists
              /\ accessCodes[i].used
              /\ accessCodes[i].code = strip(upper(resp'.request)))
          => /\ ~resp'.valid
             /\ resp'.message = "Este código ya fue utilizado"
             /\ ~resp'.access_token
             /\ accessCodes' = accessCodes]_vars

\* C7 witness: a code that a validation had consumed was submitted again,
\* in lower case, and was rejected without a token.
C7_Witness ==
    /\ resp.op = "validate_access_code"
    /\ resp.request = <<"a", "b", "c", "2", "3", "4">>
    /\ resp.message = "Este código ya fue utilizado"
    /\ ~resp.access_token
    /\ \E i \in 1..Len(accessCodes) :
          /\ accessCodes[i].exists
          /\ accessCodes[i].code = <<"A", "B", "C", "2", "3", "4">>
          /\ accessCodes[i].usedAt

(***************************************************************************)
(* Properties of the generation endpoints (SpecGen)                        *)
(***************************************************************************)
\* the answer to a generation request whose provider call failed
UpstreamFailed(r) ==
    /\ r.op \in {"generate", "generate_video"}
    /\ r.upstream \in {"error", "bad_json", "ValueError", "Exception"}

\* the document of the request that r answers
ArtifactOf(r) == IF r.op = "generate_video" THEN video ELSE artifacts[r.kind]

C11_ScriptFailureSkipsAudio ==
    [][/\ (tasks["podcast"] = "script" /\ resp'.op = "generate"
            /\ resp'.kind = "podcast")
          => /\ artifacts["podcast"].status = "generating_script"
             /\ artifacts'["podcast"].status = "failed"
             /\ artifacts'["podcast"].errorMessage # None
             /\ tasks'["podcast"] = "idle"
       /\ (artifacts'["podcast"].status = "generating_audio"
             /\ artifacts["podcast"].status # "generating_audio")
          => resp'.op = "podcast_script_done"]_vars

C11_Witness ==
    /\ resp.op = "generate"
    /\ resp.kind = "podcast"
    /\ resp.upstream = "error"
    /\ resp.stage = "script"
    /\ artifacts["podcast"].status = "failed"
    /\ tasks["podcast"] = "idle"

\* the steps that send a request to HeyGen
ProviderCallOps ==
    {"generate_video_begin", "regenerate_video_begin",
     "get_generation_status_begin", "_poll_heygen_status"}

\* C12: nothing is retried automatically: once the video is failed no further
\* request goes to HeyGen for it until a client calls the regenerate
\* endpoint
C12_NoProviderCallAfterFailed ==
    [][(video.exists /\ video.status = "failed" /\ resp'.op \in ProviderCallOps)
          => resp'.op = "regenerate_video_begin"]_vars

\* the documents of the store
Documents == <<store, video, accessCodes, users, artifacts>>

\* C13: a request answered 400 or 404 leaves every document as it was
C13_RejectedRequestWritesNothing ==
    [][("http" \in DOMAIN resp' /\ resp'.http \in {400, 404})
          => UNCHANGED Documents]_vars

\* C14: get_module_extension succeeds for each of the eight module
\* identifiers, lesson among them, and answers not found only for an
\* identifier outside them
C14_EightModulesHaveExtensions ==
    resp.op = "get_module_extension"
        => (resp.http = 200 <=> resp.module \in AIModule)

\* C15: the role guard admits a request exactly when one of the caller's
\* roles, a single role string counting as a list of one, is in the allow
\* list; every other request is answered 403 "Insufficient permissions" and
\* its handler is not called
CallerRoles(role) == IF role.isStr THEN {role.str} ELSE Range(role.list)

C15_GuardAdmitsOnIntersection ==
    resp.op = "role_checker" =>
        IF CallerRoles(resp.role) \cap Range(resp.allowed_roles) # {}
        THEN resp.http = 200 /\ resp.handler = "ran"
        ELSE /\ resp.http = 403
             /\ resp.detail = "Insufficient permissions"
             /\ resp.handler = "not called"

C15_Witness ==
    /\ resp.op = "role_checker"
    /\ resp.role = RoleString("author")
    /\ resp.allowed_roles = require_author
    /\ resp.http = 200

RECURSIVE Occurrences(_, _)
Occurrences(s, pat) ==
    IF Len(s) < Len(pat) THEN 0
    ELSE IF StartsWith(s, pat)
    THEN 1 + Occurrences(SubSeq(s, Len(pat) + 1, Len(s)), pat)
    ELSE Occurrences(Tail(s), pat)

Substituted == resp.op = "_replace_variables"

\* C16 as stated: a placeholder whose key the mapping lacks leaves no literal
\* in the output, and the substitution does not raise
C16_MissingKeyLeavesNothing ==
    Substituted =>
        /\ ~resp.raised
        /\ \A key \in Range(VariableKeys) :
              ~resp.variables[key].present
                  => Occurrences(resp.result, Placeholder(key)) = 0

\* C16: substitution never raises; a placeholder whose key is in the mapping
\* is replaced everywhere, by nothing when the value is empty or None; a
\* placeholder whose key the mapping lacks stays in the output, whole, as
\* often as it is in the template
C16_MissingKeyPassesThrough ==
    Substituted =>
        /\ ~resp.raised
        /\ \A key \in Range(VariableKeys) :
              IF resp.variables[key].present
              THEN /\ Occurrences(resp.result, Placeholder(key)) = 0
                   /\ resp.variables[key].value \in {None, ""}
                         => Len(resp.result) <= Len(resp.template)
                               - Len(Placeholder(key))
                                   * Occurrences(resp.template, Placeholder(key))
              ELSE Occurrences(resp.result, Placeholder(key))
                       = Occurrences(resp.template, Placeholder(key))

C16_Witness ==
    /\ Substituted
    /\ ~resp.variables["num_slides"].present
    /\ Occurrences(resp.template, Placeholder("num_slides")) = 1
    /\ Occurrences(resp.template, Placeholder("tema")) = 1
    /\ Occurrences(resp.result, Placeholder("num_slides")) = 1

Fetched(r) == r.op \in ReadOps /\ r.http = 200

\* C17 as stated: a fetch returns the content the previous fetch of the same
\* document returned when no write came between the two, whichever of the
\* cache, the store or the creation of the default served either
C17_FetchTwiceIdentical ==
    [][(Fetched(resp') /\ lastRead[DocOf(resp')].any.present)
          => resp'.content = lastRead[DocOf(resp')].any.content]_vars

\* C17: a fetch served from the store or by the creation of the default
\* (every endpoint fetch, and a service fetch that misses the cache) returns
\* the content of the previous such fetch of the same document when no write
\* came between the two; a service fetch served from the cache returns the
\* content of the service's previous fetch of that document
C17_FetchTwiceIdenticalPerSource ==
    [][Fetched(resp') =>
          IF ServedFromCache(resp')
          THEN /\ lastRead[DocOf(resp')].service.present
               /\ resp'.content = lastRead[DocOf(resp')].service.content
          ELSE lastRead[DocOf(resp')].stored.present
                  => resp'.content = lastRead[DocOf(resp')].stored.content]_vars

\* the service has answered the master prompt from its cache with the
\* default while the store, read by the endpoint since the last write, holds
\* the updated content
C17_Witness ==
    /\ resp.op = "get_master_prompt"
    /\ resp.path = "service"
    /\ resp.content = DEFAULT_MASTER_PROMPT
    /\ lastRead[MasterId].stored.present
    /\ lastRead[MasterId].stored.content = "X"
    /\ lastRead[MasterId].service.content = DEFAULT_MASTER_PROMPT

CreateOps == {"register", "create_user", "enroll_student"}

\* C18: a request to register, create_user or enroll_student whose email is
\* the email of a stored user is answered 409 and creates no user document
C18_DuplicateEmailRejected ==
    [][(resp'.op \in CreateOps
          /\ \E i \in DOMAIN accounts : accounts[i].email = resp'.email)
          => resp'.http = 409 /\ accounts' = accounts]_vars

\* a second user exists and a request with the second user's email has been
\* rejected
C18_Witness ==
    /\ resp.op \in CreateOps
    /\ resp.http = 409
    /\ Len(accounts) >= 2
    /\ accounts[2].email = resp.email

\* the position of an identifier in the order its collection streams
PositionIn(ids, id) == CHOOSE i \in DOMAIN ids : ids[i] = id

\* p is visited by the walk no later than q
VisitedNoLater(p, q) ==
    LET a == <<PositionIn(CourseIds, p.courseId), PositionIn(LevelIds, p.levelId),
               PositionIn(ModuleIds, p.moduleId), PositionIn(SectionIds, p.sectionId)>>
        b == <<PositionIn(CourseIds, q.courseId), PositionIn(LevelIds, q.levelId),
               PositionIn(ModuleIds, q.moduleId), PositionIn(SectionIds, q.sectionId)>>
    IN  \/ a = b
        \/ \E k \in 1..4 : a[k] < b[k] /\ \A n \in 1..(k - 1) : a[n] = b[n]

Holders(h, lesson_id) == {p \in h : p.lessonId = lesson_id}

\* C19: the lookup of a lesson ID answers not found exactly when no section
\* of the hierarchy holds a lesson with that ID; otherwise it answers the
\* course, level, module and section of a lesson with that ID that the
\* hierarchy holds, the first one that the walk over courses, levels,
\* modules and sections visits
C19_LookupReturnsFirstMatch ==
    resp.op = "get_lesson_path" =>
        LET holders == Holders(resp.hierarchy, resp.lesson_id)
        IN  IF holders = {} THEN ~resp.path.found
            ELSE /\ resp.path.found
                 /\ \E p \in holders :
                       /\ resp.path = Found(p.courseId, p.levelId, p.moduleId, p.sectionId)
                       /\ \A q \in holders : VisitedNoLater(p, q)

\* two sections hold the lesson and the one found is not in the first
\* course, level, module or section
C19_Witness ==
    /\ resp.op = "get_lesson_path"
    /\ Cardinality(Holders(resp.hierarchy, resp.lesson_id)) = 2
    /\ resp.path = Found("c2", "a2", "m1", "s2")

\* the points of the questions q[1..k], 1 for a question without points
RECURSIVE PointsOfFirst(_, _)
PointsOfFirst(q, k) ==
    IF k = 0 THEN 0
    ELSE PointsOfFirst(q, k - 1) + (IF q[k].given THEN q[k].points ELSE 1)

\* C20: when a quiz is requested with num_questions = n and the provider
\* answers valid JSON with n questions, the quiz is completed, its
\* total_questions is n and its total_points is the sum of the points of the
\* questions, with 1 for every question that has none
C20_QuizTotals ==
    (/\ resp.op = "generate_quiz"
     /\ resp.upstream = "ok"
     /\ Len(resp.provider_questions) = resp.num_questions)
        => /\ resp.status = "completed"
           /\ resp.total_questions = resp.num_questions
           /\ Len(resp.questions) = resp.num_questions
           /\ resp.total_points
                 = PointsOfFirst(resp.provider_questions, resp.num_questions)

\* three questions, one without points and one worth two
C20_Witness ==
    /\ resp.op = "generate_quiz"
    /\ resp.upstream = "ok"
    /\ resp.num_questions = 3
    /\ resp.provider_questions
          = <<NoPoints, [given |-> TRUE, points |-> 2], [given |-> TRUE, points |-> 1]>>
    /\ resp.total_points = 4
    /\ resp.status = "completed"

\* C21: a poll tick that finds the video already failed or completed writes
\* nothing to the document and ends the poll task
C21_PollExitsOnTerminalStatus ==
    [][(/\ video.exists
        /\ video.status \in {"failed", "completed"}
        /\ resp'.op = "_poll_heygen_status")
          => /\ video' = video
             /\ ~polls'[resp'.job].active]_vars

\* C22: the poll task makes at most 60 status checks, 30 seconds apart, an
\* exception of a check counting as an attempt; it always ends; when it ends
\* without completed or failed from the provider the video is failed with
\* the timeout message
C22_PollTerminates ==
    /\ [](/\ polls[PolledJob].attempt <= max_attempts
          /\ polls[PolledJob].active => now = PollInterval * polls[PolledJob].attempt
          /\ resp.op = "_poll_heygen_status_timeout"
                => /\ polls[PolledJob].attempt = max_attempts
                   /\ now = PollInterval * max_attempts
                   /\ video.status = "failed"
                   /\ video.errorMessage = TimeoutMessage)
    /\ <>(~polls[PolledJob].active)

\* the task has given up after 60 attempts, some of them exceptions
C22_Witness ==
    /\ resp.op = "_poll_heygen_status_timeout"
    /\ polls[PolledJob].attempt = max_attempts
    /\ ~polls[PolledJob].active
    /\ now = PollInterval * max_attempts
    /\ video.status = "failed"
    /\ video.errorMessage = TimeoutMessage

\* C23: the service answers a document from its cache only while less than
\* the TTL has passed since it fetched that document from the store,
\* whichever other documents were read in between
C23_CachedWithinTtlOfItsFetch ==
    [][(Fetched(resp') /\ ServedFromCache(resp'))
          => now - fetchedAt[DocOf(resp')] < _cache_ttl_seconds]_vars

\* C24: when two updates of the master prompt run at the same time, neither
\* is rejected, and once both have finished the stored content,
\* current_version and versions are those of the write that landed last,
\* never a mixture of the two writes
C24_LastWriteWins ==
    (\A u \in Updaters : updaters[u].pc = "done")
        => /\ \A u \in Updaters : updaters[u].http = 200
           /\ \E w \in Updaters :
                 /\ updaters[w].landed = LastLanded
                 /\ store[MasterId].content = updaters[w].data.content
                 /\ store[MasterId].current_version = updaters[w].data.current_version
                 /\ store[MasterId].versions = updaters[w].data.versions

\* both admins read version 1, admin1 wrote first and admin2 last: the
\* document is admin2's, without admin1's version entry
C24_Witness ==
    /\ \A u \in Updaters : updaters[u].pc = "done" /\ updaters[u].prompt.current_version = 1
    /\ updaters["admin1"].landed < updaters["admin2"].landed
    /\ store[MasterId].content = updaters["admin2"].content
    /\ store[MasterId].current_version = 2
    /\ Len(store[MasterId].versions) = 2

(***************************************************************************)
(* Properties of the access codes of two students (SpecCodes)              *)
(***************************************************************************)
\* C25: an access code is single-use: of all the validate_access_code
\* requests that present the same code, in any order, at most one returns a
\* JWT
C25_CodeLogsInOnce ==
    [][(resp'.op = "validate_access_code" /\ resp'.access_token)
          => NormalizedCode(resp'.request) \notin issued]_vars

\* C26: after revoke_access_code has succeeded for a code, every later
\* validate_access_code request that presents the code is rejected and
\* issues no JWT
C26_RevokedCodeRejected ==
    [][(resp'.op = "validate_access_code" /\ NormalizedCode(resp'.request) \in revoked)
          => ~resp'.valid /\ ~resp'.access_token]_vars

\* the access-code records of the student that are not used
UnusedCodesOf(s) ==
    {i \in 1..Len(accessCodes) :
        accessCodes[i].exists /\ accessCodes[i].studentId = s /\ ~accessCodes[i].used}

C27_DisabledUserCannotLogIn ==
    [][(/\ resp'.op \in {"login", "google_auth"}
        /\ resp'.user \in UserIds
        /\ users[resp'.user].exists
        /\ users[resp'.user].isDisabled)
          => resp'.http # 200 /\ ~resp'.access_token]_vars

(***************************************************************************)
(* Properties of a regenerated video (SpecRegen)                           *)
(***************************************************************************)
\* C28: once regenerate_video has started a new provider job for a video,
\* the poll task of an earlier job of the video never writes that job's
\* status, video URL or error message into the document
C28_EarlierPollNeverWrites ==
    [][(/\ resp'.op \in {"_poll_heygen_status", "_poll_heygen_status_timeout"}
        /\ video.heygenVideoId # NoJob
        /\ resp'.job # video.heygenVideoId)
          => video' = video]_vars

(***************************************************************************)
(* Properties of the course hierarchy (SpecCourse)                         *)
(***************************************************************************)
\* C29: after any sequence of create and delete operations on the lessons,
\* sections, modules and levels of a course, courseMeta.lessonsCount equals
\* the number of lesson documents that exist under the course
C29_LessonsCountIsExact ==
    course.lessonsCount = Cardinality(course.lessons)

====
